---- MODULE Spec2Model ----
(***************************************************************************)
(* Parametric box / lid solid synthesis (src/src/lib/cad.ts), the          *)
(* parameter helpers (src/src/lib/params.ts) and the dimensions the UI     *)
(* derives from the parameters (src/src/App.tsx).                          *)
(*                                                                         *)
(* The lengths in the state of cad.ts and of the App are fixed point: one   *)
(* unit is 0.00005 of a model unit, so 1.0 = 20000, the clamp epsilon      *)
(* 0.01 = 200 and the third decimal digit is 20 units.  Inside widths and  *)
(* depths are drawn from even values, so Math.min(width, depth) / 2 is     *)
(* exact.  The numbers of params.ts and of the dimensions the UI shows are *)
(* IEEE 754 doubles.                                                       *)
(*                                                                         *)
(* Kernel objects are symbolic values: a solid is a record naming the      *)
(* adapter call that made it and that call's operands.                     *)
(*                                                                         *)
(* Spec is cad.ts called without a window (no diagnostic trace); SpecUI is *)
(* the App component: its state, handleGenerate with its awaits as         *)
(* separate steps, handleDownload and the trace in window.__cadDebug.      *)
(* SpecAdapter calls the adapter operations one at a time on kernel builds *)
(* that differ in which probed candidates complete; SpecUrl is the query   *)
(* string written by paramsToSearch and read back by parseParams.          *)
(***************************************************************************)
EXTENDS Integers, Sequences, FiniteSets, TLC

\* cad.ts and its callers: the parameters in hand, the kernel build, the
\* memoized kernel promise, the calls suspended on it, the results of the
\* last two calls that ended, and the kernel's virtual file system.
VARIABLES params, kernel, ocPromise, initCalls, waiting, out, prev, fs

\* App.tsx: the component's state, the handleGenerate invocations in flight,
\* window.__cadDebug, whether location.search holds "debug=1", and the last
\* file handed to the browser.
VARIABLES mounted, urlDebug, status, error, debugLog, previewMesh, stepData,
          gen, builds, cadDebug, downloaded

appVars == <<mounted, urlDebug, status, error, debugLog, previewMesh,
             stepData, gen, builds, cadDebug, downloaded>>

vars == <<params, kernel, ocPromise, initCalls, waiting, out, prev, fs,
          appVars>>

(***************************************************************************)
(* Bounds and input sets.                                                  *)
(***************************************************************************)
MaxWaiting == 2
\* The Preview clicks of one session.
MaxBuilds == 2

Shapes == {"box", "cylinder"}
ThicknessModes == {"uniform", "custom"}
\* 0.01, 6.0, 10.0
InsideWidths == {200, 120000, 200000}
\* 10.0
InsideDepths == {200000}
\* 10.0
InsideHeights == {200000}
\* 0, 2.5, 4.995, 20.0
InsideRadii == {0, 50000, 99900, 400000}
\* 1.67025, 1.67035
Thicknesses == {33405, 33407}
\* 1.0
WallThicknesses == {20000}
\* 0.5
TopThicknesses == {10000}
\* 2.0
BottomThicknesses == {40000}
\* 0, 0.2
Clearances == {0, 4000}

ParamSpace ==
  [shape : Shapes, includeLid : BOOLEAN, insideWidth : InsideWidths,
   insideDepth : InsideDepths, insideHeight : InsideHeights,
   includeInsideRadius : BOOLEAN, insideRadius : InsideRadii,
   thicknessMode : ThicknessModes, thickness : Thicknesses,
   wallThickness : WallThicknesses, topThickness : TopThicknesses,
   bottomThickness : BottomThicknesses, clearance : Clearances]

\* What the kernel build in use does where the adapter depends on it:
\* whether a planar face can be made from a rounded wire, whether the pipe
\* sweep works, whether the two-argument constructor of the boolean
\* operation works, and what the STEP writer's Write does.
\* "rootonly": nothing can be written under /tmp, the other targets work.
\* "toolonly": Write reports done but creates a file only for a profile
\* solid, not for a boolean result or a compound.
WriteModes ==
  {"ok", "rootonly", "empty", "nofile", "throws", "badstatus", "toolonly"}
\* The candidates the adapter probes: makePrism's 4 constructors times 2
\* inputs, makePipeFromWire's 6 calls of Add, translateShape's 3
\* constructor calls.
PrismAttempts == 8
AddAttempts == 6
TransformAttempts == 3
\* Candidates 1..n of which those in the set given complete.
Accepts(n, working) == [i \in 1..n |-> i \in working]
\* prism, adds, transform: which candidate completes on this build.
\* shell: what Build and Shape of a pipe shell do when no Add completed,
\* "checks" (they raise) or "lenient" (they return a shape); "absent" for
\* a build that has neither MakePipeShell nor MakePipe.
\* throwsError: whether what the kernel throws is an instance of Error.
KernelBuild(faceOk, pipeOk, cutCtor, write) ==
  [faceOk |-> faceOk, pipeOk |-> pipeOk, cutCtor |-> cutCtor, write |-> write,
   prism |-> Accepts(PrismAttempts, 1..PrismAttempts),
   adds |-> Accepts(AddAttempts, IF pipeOk THEN 1..AddAttempts ELSE {}),
   shell |-> "checks",
   transform |-> Accepts(TransformAttempts, 1..TransformAttempts),
   throwsError |-> TRUE]
\* The first two: a build without the pipe classes, and one on which no
\* call of the transform constructor completes.
KernelBuilds ==
  {[KernelBuild(FALSE, FALSE, TRUE, "ok") EXCEPT !.shell = "absent"],
   [KernelBuild(TRUE, TRUE, TRUE, "ok")
      EXCEPT !.transform = Accepts(TransformAttempts, {})],
   KernelBuild(TRUE, TRUE, TRUE, "ok"),
   KernelBuild(FALSE, TRUE, TRUE, "ok"),
   KernelBuild(FALSE, FALSE, TRUE, "ok"),
   KernelBuild(TRUE, TRUE, FALSE, "ok"),
   KernelBuild(TRUE, TRUE, TRUE, "rootonly"),
   KernelBuild(TRUE, TRUE, TRUE, "empty"),
   KernelBuild(TRUE, TRUE, TRUE, "nofile"),
   KernelBuild(TRUE, TRUE, TRUE, "throws"),
   KernelBuild(TRUE, TRUE, TRUE, "badstatus"),
   KernelBuild(TRUE, TRUE, TRUE, "toolonly")}

\* Math.min and Math.max.
Min(a, b) == IF a <= b THEN a ELSE b
Max(a, b) == IF a >= b THEN a ELSE b

(***************************************************************************)
(* Numbers.  A number of the program is an IEEE 754 double, computed here  *)
(* bit for bit: kind tells a finite number from an infinity and from NaN,  *)
(* and a finite number is (-1)^neg * mant * 2^exp with mant below 2^53,    *)
(* at least 2^52 unless exp is -1074, and exp at most 971.  mant is a      *)
(* whole number of any size, written as its digits of base 2^15, lowest    *)
(* first, none for 0.                                                      *)
(*                                                                         *)
(* A length in the state of cad.ts and of the App is a whole number n of   *)
(* units of 0.00005 and stands for the double nearest to the decimal       *)
(* n / 20000, Double(n), which is what the program holds after reading     *)
(* that decimal from a literal, an input or the URL.                       *)
(***************************************************************************)
\* The third decimal, in units.
RoundStep == 20
\* 2^15
LimbBase == 2 ^ 15

\* The digit of x at place i, 0 beyond its last.
limbAt(x, i) == IF i \in 1..Len(x) THEN x[i] ELSE 0

\* x without the zeros after its last digit that is not 0.
trimmed(x) ==
  IF \A i \in 1..Len(x) : x[i] = 0 THEN <<>>
  ELSE SubSeq(x, 1, CHOOSE i \in 1..Len(x) :
                      x[i] # 0 /\ \A j \in (i + 1)..Len(x) : x[j] = 0)

\* The whole number n, 0 <= n < 2^31, and back.
limbsOf(n) ==
  trimmed(<<n % LimbBase, (n \div LimbBase) % LimbBase,
            n \div (LimbBase * LimbBase)>>)

wholeOf(x) ==
  limbAt(x, 1) + LimbBase * limbAt(x, 2) + LimbBase * LimbBase * limbAt(x, 3)

\* The number of binary digits of v, 0 < v < 2^15, and of x.
bitLength(v) == CHOOSE b \in 1..15 : 2 ^ (b - 1) <= v /\ v < 2 ^ b

bitsOf(x) ==
  IF x = <<>> THEN 0 ELSE 15 * (Len(x) - 1) + bitLength(x[Len(x)])

\* Arithmetic on the digits of the places lo to hi, by halves of the
\* places: a result is their digits, then the carry out of them.
last(r) == r[Len(r)]

front(r) == SubSeq(r, 1, Len(r) - 1)

middle(lo, hi) == (lo + hi) \div 2

\* x + y + carry
RECURSIVE addFrom(_, _, _, _, _)
addUpper(low, x, y, lo, hi) == front(low) \o addFrom(x, y, lo, hi, last(low))

addFrom(x, y, lo, hi, carry) ==
  IF lo = hi
  THEN <<(limbAt(x, lo) + limbAt(y, lo) + carry) % LimbBase,
         (limbAt(x, lo) + limbAt(y, lo) + carry) \div LimbBase>>
  ELSE addUpper(addFrom(x, y, lo, middle(lo, hi), carry), x, y,
                middle(lo, hi) + 1, hi)

addLimbs(x, y, carry) ==
  IF x = <<>> /\ y = <<>> THEN (IF carry = 0 THEN <<>> ELSE <<carry>>)
  ELSE trimmed(addFrom(x, y, 1, IF Len(x) > Len(y) THEN Len(x) ELSE Len(y),
                       carry))

\* x - y - borrow, for x >= y: the carry is the borrow.
RECURSIVE subFrom(_, _, _, _, _)
subUpper(low, x, y, lo, hi) == front(low) \o subFrom(x, y, lo, hi, last(low))

subFrom(x, y, lo, hi, borrow) ==
  IF lo = hi
  THEN <<(x[lo] - limbAt(y, lo) - borrow) % LimbBase,
         IF x[lo] - limbAt(y, lo) - borrow < 0 THEN 1 ELSE 0>>
  ELSE subUpper(subFrom(x, y, lo, middle(lo, hi), borrow), x, y,
                middle(lo, hi) + 1, hi)

subLimbs(x, y, borrow) ==
  IF x = <<>> THEN <<>> ELSE trimmed(front(subFrom(x, y, 1, Len(x), borrow)))

\* x < y
lessLimbs(x, y) ==
  IF Len(x) # Len(y) THEN Len(x) < Len(y)
  ELSE \E i \in 1..Len(x) :
         x[i] < y[i] /\ \A j \in (i + 1)..Len(x) : x[j] = y[j]

\* x * c + carry, for c <= 2^15 and carry < 2^15.
RECURSIVE timesFrom(_, _, _, _, _)
timesUpper(low, x, c, lo, hi) ==
  front(low) \o timesFrom(x, c, lo, hi, last(low))

timesFrom(x, c, lo, hi, carry) ==
  IF lo = hi
  THEN <<(x[lo] * c + carry) % LimbBase, (x[lo] * c + carry) \div LimbBase>>
  ELSE timesUpper(timesFrom(x, c, lo, middle(lo, hi), carry), x, c,
                  middle(lo, hi) + 1, hi)

timesLimbs(x, c, carry) ==
  IF x = <<>> THEN (IF carry = 0 THEN <<>> ELSE <<carry>>)
  ELSE trimmed(timesFrom(x, c, 1, Len(x), carry))

\* x divided by c <= 2^15, from the highest place down: the digits of the
\* quotient, highest first, then the remainder.
RECURSIVE overFrom(_, _, _, _, _)
overLower(high, x, c, lo, hi) ==
  front(high) \o overFrom(x, c, lo, hi, last(high))

overFrom(x, c, lo, hi, rest) ==
  IF lo = hi
  THEN <<(rest * LimbBase + x[lo]) \div c, (rest * LimbBase + x[lo]) % c>>
  ELSE overLower(overFrom(x, c, middle(lo, hi) + 1, hi, rest), x, c, lo,
                 middle(lo, hi))

\* The remainder, then the digits of the quotient, lowest first.
lowestFirst(r) == [i \in 1..Len(r) |-> IF i = 1 THEN last(r) ELSE r[Len(r) + 1 - i]]

overLimbs(x, c) ==
  IF x = <<>> THEN <<0>> ELSE lowestFirst(overFrom(x, c, 1, Len(x), 0))

\* x * 2^k and the whole part of x / 2^k.
shiftLeft(x, k) ==
  trimmed([i \in 1..(Len(x) + (k \div 15) + 1) |->
             (limbAt(x, i - (k \div 15)) % (2 ^ (15 - (k % 15))))
                 * (2 ^ (k % 15))
               + limbAt(x, i - (k \div 15) - 1) \div (2 ^ (15 - (k % 15)))])

shiftRight(x, k) ==
  IF k \div 15 >= Len(x) THEN <<>>
  ELSE trimmed([i \in 1..(Len(x) - (k \div 15)) |->
                  limbAt(x, i + (k \div 15)) \div (2 ^ (k % 15))
                    + (limbAt(x, i + (k \div 15) + 1) % (2 ^ (k % 15)))
                        * (2 ^ (15 - (k % 15)))])

\* The binary digit of x of weight 2^k, and whether x has a binary digit
\* of a weight below 2^k.
bitAt(x, k) == (limbAt(x, (k \div 15) + 1) \div (2 ^ (k % 15))) % 2

bitsBelow(x, k) ==
  \/ \E i \in 1..Len(x) : i <= k \div 15 /\ x[i] # 0
  \/ limbAt(x, (k \div 15) + 1) % (2 ^ (k % 15)) # 0

\* x * 10^n and x * 5^n, by halves of n.
RECURSIVE timesPowerOf10(_, _)
timesPowerOf10(x, n) ==
  IF x = <<>> THEN <<>>
  ELSE IF n <= 4 THEN timesLimbs(x, 10 ^ n, 0)
  ELSE timesPowerOf10(timesPowerOf10(x, n \div 2), n - n \div 2)

RECURSIVE timesPowerOf5(_, _)
timesPowerOf5(x, n) ==
  IF x = <<>> THEN <<>>
  ELSE IF n <= 6 THEN timesLimbs(x, 5 ^ n, 0)
  ELSE timesPowerOf5(timesPowerOf5(x, n \div 2), n - n \div 2)

\* The whole part of r.mag / 10^n, and whether a division left a remainder
\* (inexact, also when r is so), by halves of n.
overSmall(r, divided) ==
  [mag |-> trimmed(Tail(divided)), inexact |-> r.inexact \/ divided[1] # 0]

RECURSIVE overPowerOf10(_, _)
overPowerOf10(r, n) ==
  IF r.mag = <<>> THEN r
  ELSE IF n <= 4 THEN overSmall(r, overLimbs(r.mag, 10 ^ n))
  ELSE overPowerOf10(overPowerOf10(r, n \div 2), n - n \div 2)

Finite(neg, mant, exp) ==
  [kind |-> "finite", neg |-> neg, mant |-> mant, exp |-> exp]
Infinite(neg) == [kind |-> "infinite", neg |-> neg, mant |-> <<>>, exp |-> 0]
NaN == [kind |-> "nan", neg |-> FALSE, mant |-> <<>>, exp |-> 0]
Zero(neg) == Finite(neg, <<>>, -1074)

\* Number.isFinite(a)
isFinite(a) == a.kind = "finite"

\* a === b: NaN equals nothing and 0 equals -0.
strictEquals(a, b) ==
  /\ a.kind # "nan"
  /\ b.kind # "nan"
  /\ \/ a = b
     \/ isFinite(a) /\ isFinite(b) /\ a.mant = <<>> /\ b.mant = <<>>

\* The whole part q of a number whose next binary digit is half and which
\* has something below that digit if rest, rounded to the nearest whole
\* number, to the even one of two equally near (IEEE 754 round to nearest,
\* ties to even).
nearestWhole(q, half, rest) ==
  IF half /\ (rest \/ limbAt(q, 1) % 2 = 1) THEN addLimbs(q, <<1>>, 0)
  ELSE q

\* x / 2^drop rounded so; inexact tells that x stands for a value slightly
\* above it.
roundedAt(x, drop, inexact) ==
  nearestWhole(shiftRight(x, drop), bitAt(x, drop - 1) = 1,
               inexact \/ bitsBelow(x, drop - 1))

\* The double of the magnitude mant * 2^exp, mant having 53 binary digits
\* or exp being -1074, or mant being 2^53 after rounding up.
doubleOf(neg, mant, exp) ==
  IF mant = <<>> THEN Zero(neg)
  ELSE IF bitsOf(mant) = 54
  THEN (IF exp + 1 > 971 THEN Infinite(neg)
        ELSE Finite(neg, shiftRight(mant, 1), exp + 1))
  ELSE IF exp > 971 THEN Infinite(neg)
  ELSE Finite(neg, mant, exp)

\* x * 2^exp with the binary digits below 2^drop of x rounded away.
placed(neg, x, inexact, exp, drop) ==
  doubleOf(neg,
          IF drop > 0 THEN roundedAt(x, drop, inexact)
          ELSE shiftLeft(x, -drop),
          exp + drop)

\* The double nearest to the magnitude x * 2^exp: its 53 leading binary
\* digits, fewer below 2^-1022.
nearestDouble(neg, x, inexact, exp) ==
  IF x = <<>> THEN Zero(neg)
  ELSE placed(neg, x, inexact, exp,
              IF bitsOf(x) - 53 >= -1074 - exp THEN bitsOf(x) - 53
              ELSE -1074 - exp)

\* The double nearest to x * 2^exp / c, for x below 2^53 and c <= 2^15.
nearestQuotient(neg, divided, exp) ==
  nearestDouble(neg, trimmed(Tail(divided)), divided[1] # 0, exp)

\* The double that a length of n units stands for.
Double(n) ==
  nearestQuotient(n < 0,
                  overLimbs(shiftLeft(limbsOf(IF n < 0 THEN -n ELSE n), 75),
                            1000 * RoundStep),
                  -75)

\* a + b of finite doubles, the magnitudes written in units of 2^exp.
sumAt(a, b, x, y, exp) ==
  IF a.neg = b.neg THEN nearestDouble(a.neg, addLimbs(x, y, 0), FALSE, exp)
  ELSE IF x = y THEN Zero(FALSE)
  ELSE IF lessLimbs(x, y)
  THEN nearestDouble(b.neg, subLimbs(y, x, 0), FALSE, exp)
  ELSE nearestDouble(a.neg, subLimbs(x, y, 0), FALSE, exp)

\* a + b
DoubleSum(a, b) ==
  IF a.kind = "nan" \/ b.kind = "nan" THEN NaN
  ELSE IF a.kind = "infinite"
  THEN (IF b.kind = "infinite" /\ a.neg # b.neg THEN NaN ELSE a)
  ELSE IF b.kind = "infinite" THEN b
  ELSE IF a.exp <= b.exp
  THEN sumAt(a, b, a.mant, shiftLeft(b.mant, b.exp - a.exp), a.exp)
  ELSE sumAt(a, b, shiftLeft(a.mant, a.exp - b.exp), b.mant, b.exp)

\* a * c and a / c of a double and a whole number c, 0 < c <= 2^15.
DoubleTimes(a, c) ==
  IF a.kind # "finite" THEN a
  ELSE nearestDouble(a.neg, timesLimbs(a.mant, c, 0), FALSE, a.exp)

DoubleOver(a, c) ==
  IF a.kind # "finite" THEN a
  ELSE nearestQuotient(a.neg, overLimbs(shiftLeft(a.mant, 30), c),
                       a.exp - 30)

\* a * 2
Twice(a) == DoubleTimes(a, 2)

\* Math.trunc(x)
MathTrunc(x) ==
  IF x.kind # "finite" \/ x.exp >= 0 THEN x
  ELSE nearestDouble(x.neg, shiftRight(x.mant, -x.exp), FALSE, 0)

\* Math.round(x): the nearest whole number, the larger one of two equally
\* near.
MathRound(x) ==
  IF x.kind # "finite" \/ x.exp >= 0 THEN x
  ELSE nearestDouble(
         x.neg,
         IF bitAt(x.mant, -x.exp - 1) = 1
            /\ (~x.neg \/ bitsBelow(x.mant, -x.exp - 1))
         THEN addLimbs(shiftRight(x.mant, -x.exp), <<1>>, 0)
         ELSE shiftRight(x.mant, -x.exp),
         FALSE, 0)

\* roundTo truncating instead of rounding to nearest.
roundTo_Truncate(value) ==
  DoubleOver(MathTrunc(DoubleTimes(value, 1000)), 1000)

\* roundTo(value) with digits = 3, factor = Math.pow(10, 3):
\* Math.round(value * factor) / factor
roundTo(value) == DoubleOver(MathRound(DoubleTimes(value, 1000)), 1000)

\* The whole number nearest to d * 20000, for a finite double d.
nearestUnits(d) ==
  wholeOf(IF d.exp >= 0
          THEN shiftLeft(timesLimbs(d.mant, 1000 * RoundStep, 0), d.exp)
          ELSE roundedAt(timesLimbs(d.mant, 1000 * RoundStep, 0), -d.exp,
                         FALSE))

\* The length in units that stands for the double d: the n with
\* Double(n) = d.
Length(d) ==
  CHOOSE n \in {IF d.neg THEN -nearestUnits(d) ELSE nearestUnits(d)} :
    Double(n) = d

\* defaultParams of params.ts: 10, 10, 10, 2.5, 1.67 and 0.2.
defaultParams ==
  [shape |-> "box", includeLid |-> TRUE, insideWidth |-> Double(200000),
   insideDepth |-> Double(200000), insideHeight |-> Double(200000),
   includeInsideRadius |-> TRUE, insideRadius |-> Double(50000),
   thicknessMode |-> "uniform", thickness |-> Double(33400),
   wallThickness |-> Double(33400), topThickness |-> Double(33400),
   bottomThickness |-> Double(33400), clearance |-> Double(4000)]

(***************************************************************************)
(* Strings.  A string is the sequence of its characters, each a string of  *)
(* one character: the characters of ASCII that can be printed, tab, line   *)
(* feed, form feed and carriage return, and the white space beyond ASCII,  *)
(* each written as its code point, "U+00A0".  The grave accent, which a    *)
(* string here cannot hold, and any other character are written Other.     *)
(***************************************************************************)
Other == "other"
\* The characters with the codes 32 to 126.
Ascii ==
  <<" ", "!", "\"", "#", "$", "%", "&", "'", "(", ")", "*", "+", ",", "-",
   ".", "/", "0", "1", "2", "3", "4", "5", "6", "7", "8", "9", ":", ";",
   "<", "=", ">", "?", "@", "A", "B", "C", "D", "E", "F", "G", "H", "I",
   "J", "K", "L", "M", "N", "O", "P", "Q", "R", "S", "T", "U", "V", "W",
   "X", "Y", "Z", "[", "\\", "]", "^", "_", "other", "a", "b", "c", "d",
   "e", "f", "g", "h", "i", "j", "k", "l", "m", "n", "o", "p", "q", "r",
   "s", "t", "u", "v", "w", "x", "y", "z", "{", "|", "}", "~">>

\* The characters written as their code point, with their codes.
CodePoints ==
  {<<"U+000B", 11>>, <<"U+00A0", 160>>, <<"U+1680", 5760>>,
   <<"U+2000", 8192>>, <<"U+2001", 8193>>, <<"U+2002", 8194>>,
   <<"U+2003", 8195>>, <<"U+2004", 8196>>, <<"U+2005", 8197>>,
   <<"U+2006", 8198>>, <<"U+2007", 8199>>, <<"U+2008", 8200>>,
   <<"U+2009", 8201>>, <<"U+200A", 8202>>, <<"U+2028", 8232>>,
   <<"U+2029", 8233>>, <<"U+202F", 8239>>, <<"U+205F", 8287>>,
   <<"U+3000", 12288>>, <<"U+FEFF", 65279>>}

charOf(code) ==
  IF code \in 32..126 THEN Ascii[code - 31]
  ELSE IF code = 9 THEN "\t"
  ELSE IF code = 10 THEN "\n"
  ELSE IF code = 12 THEN "\f"
  ELSE IF code = 13 THEN "\r"
  ELSE IF \E c \in CodePoints : c[2] = code
  THEN (CHOOSE c \in CodePoints : c[2] = code)[1]
  ELSE Other

codeOf(c) ==
  IF \E i \in 1..Len(Ascii) : Ascii[i] = c
  THEN 31 + (CHOOSE i \in 1..Len(Ascii) : Ascii[i] = c)
  ELSE IF c = "\t" THEN 9
  ELSE IF c = "\n" THEN 10
  ELSE IF c = "\f" THEN 12
  ELSE IF c = "\r" THEN 13
  ELSE (CHOOSE p \in CodePoints : p[1] = c)[2]

Digits ==
  <<"0", "1", "2", "3", "4", "5", "6", "7", "8", "9", "A", "B", "C", "D",
    "E", "F">>

\* The value of c as a digit, of any case, and -1 if it is none.
DigitValue(c) ==
  IF \E d \in 1..16 : Digits[d] = c
  THEN (CHOOSE d \in 1..16 : Digits[d] = c) - 1
  ELSE IF codeOf(c) \in 97..102 THEN codeOf(c) - 87
  ELSE -1

IsDigit(c) == DigitValue(c) \in 0..9

RECURSIVE natToString(_)
natToString(n) ==
  IF n < 10 THEN <<Digits[n + 1]>>
  ELSE natToString(n \div 10) \o <<Digits[(n % 10) + 1]>>

\* The digit of the digit sequence d at place i, 0 outside it.
digitAt(d, i) == IF i \in 1..Len(d) THEN d[i] ELSE 0

\* The number of zeros d starts with from place i.
RECURSIVE leadingZeros(_, _)
leadingZeros(d, i) ==
  IF i <= Len(d) /\ d[i] = 0 THEN 1 + leadingZeros(d, i + 1) ELSE 0

\* The whole number written by the digits d from place lo to place hi in a
\* radix of at most 16, after the whole number acc, by halves.
RECURSIVE wholeLimbs(_, _, _, _, _)
wholeUpper(low, d, lo, hi, radix) ==
  IF low = <<>> THEN wholeLimbs(<<>>, d, lo, hi, radix)
  ELSE wholeLimbs(low, d, lo, hi, radix)

wholeLimbs(acc, d, lo, hi, radix) ==
  IF lo > hi THEN acc
  ELSE IF lo = hi THEN timesLimbs(acc, radix, d[lo])
  ELSE wholeUpper(wholeLimbs(acc, d, lo, middle(lo, hi), radix), d,
                  middle(lo, hi) + 1, hi, radix)

\* The double nearest to whole / 10^n: the division is carried to 64 binary
\* digits and more.
decimalQuotient(neg, divided, n) ==
  nearestDouble(neg, divided.mag, divided.inexact, -(4 * n + 64))

\* The double nearest to whole * 10^exponent.
decimalScaled(neg, whole, exponent) ==
  IF exponent >= 0
  THEN nearestDouble(neg, timesPowerOf10(whole, exponent), FALSE, 0)
  ELSE decimalQuotient(neg,
                       overPowerOf10([mag |-> shiftLeft(whole,
                                                      4 * (-exponent) + 64),
                                      inexact |-> FALSE],
                                     -exponent),
                       -exponent)

\* The double nearest to 0.d1 d2 ... * 10^point of the decimal digits d,
\* which has zeros leading zeros: a value of 10^310 or more is infinite and
\* one below 10^-330 is 0.
decimalFrom(neg, d, point, zeros) ==
  IF zeros = Len(d) THEN Zero(neg)
  ELSE IF point - zeros > 310 THEN Infinite(neg)
  ELSE IF point - zeros < -330 THEN Zero(neg)
  ELSE decimalScaled(neg, wholeLimbs(<<>>, d, 1, Len(d), 10),
                     point - Len(d))

decimalValue(neg, d, point) == decimalFrom(neg, d, point, leadingZeros(d, 1))

(***************************************************************************)
(* Number.prototype.toString, radix 10.                                    *)
(***************************************************************************)
\* The four decimal digits of n < 10000.
fourDigits(n) ==
  <<n \div 1000, (n \div 100) % 10, (n \div 10) % 10, n % 10>>

\* The last 4 * n decimal digits of the whole number r.rest, highest
\* first, before the digits r.digits, and the rest of it, by halves of n.
digitsNext(r, divided) ==
  [rest |-> trimmed(Tail(divided)),
   digits |-> fourDigits(divided[1]) \o r.digits]

zeroDigits(n) == [i \in 1..n |-> 0]

RECURSIVE lastDigits(_, _)
lastDigits(r, n) ==
  IF r.rest = <<>> THEN [rest |-> <<>>, digits |-> zeroDigits(4 * n) \o r.digits]
  ELSE IF n = 1 THEN digitsNext(r, overLimbs(r.rest, 10000))
  ELSE lastDigits(lastDigits(r, n \div 2), n - n \div 2)

\* d from its first digit that is not 0.
fromFirst(d) == SubSeq(d, leadingZeros(d, 1) + 1, Len(d))

\* The decimal digits of the whole number x, highest first: it has fewer
\* than 4 for every 13 binary digits, and 4.
decimalDigits(x) ==
  fromFirst(lastDigits([rest |-> x, digits |-> <<>>],
                       (bitsOf(x) \div 13) + 1).digits)

\* The decimal expansion of the magnitude of a finite double x that is not
\* 0: x = 0.d1 d2 ... * 10^point.
expansionOf(digits, exp) ==
  [digits |-> digits, point |-> Len(digits) + exp]

decimalExpansion(x) ==
  IF x.exp >= 0
  THEN expansionOf(decimalDigits(shiftLeft(x.mant, x.exp)), 0)
  ELSE expansionOf(decimalDigits(timesPowerOf5(x.mant, -x.exp)), x.exp)

\* The digits d plus one at the last place; the point moves when all of
\* them are 9.
RECURSIVE digitsUp(_, _)
digitsUp(d, i) ==
  IF i = 0 THEN <<1>> \o d
  ELSE IF d[i] = 9 THEN digitsUp([d EXCEPT ![i] = 0], i - 1)
  ELSE [d EXCEPT ![i] = d[i] + 1]

nextUp(e, k) ==
  IF \A i \in 1..k : e.digits[i] = 9
  THEN [digits |-> <<1>>, point |-> e.point + 1]
  ELSE [digits |-> digitsUp(SubSeq(e.digits, 1, k), k), point |-> e.point]

nextDown(e, k) == [digits |-> SubSeq(e.digits, 1, k), point |-> e.point]

\* The digits of e after the first k are more than half of the last place
\* kept, or half of it with the kept digits odd.
upIsNearer(e, k) ==
  \/ e.digits[k + 1] > 5
  \/ /\ e.digits[k + 1] = 5
     /\ \/ \E i \in (k + 2)..Len(e.digits) : e.digits[i] # 0
        \/ e.digits[k] % 2 = 1

\* Whether the decimal c reads back as the double x.
readsBack(c, x) == decimalValue(x.neg, c.digits, c.point) = x

\* The shortest decimal that reads back as x, from k digits on: of the two
\* decimals of k digits around x, the one that reads back, the nearer one
\* if both do.
RECURSIVE shortestFrom(_, _, _)
shortestFrom(x, e, k) ==
  IF k >= Len(e.digits) THEN e
  ELSE IF readsBack(nextDown(e, k), x)
  THEN (IF upIsNearer(e, k) /\ readsBack(nextUp(e, k), x) THEN nextUp(e, k)
        ELSE nextDown(e, k))
  ELSE IF readsBack(nextUp(e, k), x) THEN nextUp(e, k)
  ELSE shortestFrom(x, e, k + 1)

\* d without the zeros at its end.
RECURSIVE withoutZeros(_)
withoutZeros(d) ==
  IF d # <<>> /\ d[Len(d)] = 0 THEN withoutZeros(SubSeq(d, 1, Len(d) - 1))
  ELSE d

digitChars(d) == [i \in 1..Len(d) |-> Digits[d[i] + 1]]

zeroChars(n) == [i \in 1..n |-> "0"]

\* The text of the k digits s with the point after the first n of them.
decimalText(s, k, n) ==
  IF k <= n /\ n <= 21 THEN digitChars(s) \o zeroChars(n - k)
  ELSE IF 0 < n /\ n <= 21
  THEN digitChars(SubSeq(s, 1, n)) \o <<".">> \o digitChars(SubSeq(s, n + 1, k))
  ELSE IF -6 < n /\ n <= 0
  THEN <<"0", ".">> \o zeroChars(-n) \o digitChars(s)
  ELSE digitChars(SubSeq(s, 1, 1))
         \o (IF k = 1 THEN <<>> ELSE <<".">> \o digitChars(SubSeq(s, 2, k)))
         \o <<"e", IF n - 1 < 0 THEN "-" ELSE "+">>
         \o natToString(IF n - 1 < 0 THEN 1 - n ELSE n - 1)

shortestText(e) ==
  decimalText(withoutZeros(e.digits), Len(withoutZeros(e.digits)), e.point)

\* value.toString()
numberToString(value) ==
  IF value.kind = "nan" THEN <<"N", "a", "N">>
  ELSE IF value.kind = "infinite"
  THEN (IF value.neg THEN <<"-">> ELSE <<>>)
         \o <<"I", "n", "f", "i", "n", "i", "t", "y">>
  ELSE IF value.mant = <<>> THEN <<"0">>
  ELSE (IF value.neg THEN <<"-">> ELSE <<>>)
         \o shortestText(shortestFrom(value, decimalExpansion(value), 1))

(***************************************************************************)
(* Number(string): StringToNumber of ECMAScript.                           *)
(***************************************************************************)
\* WhiteSpace and LineTerminator: tab, line feed, vertical tab, form feed,
\* carriage return, space, no-break space, the other space separators,
\* line separator, paragraph separator and the byte order mark.
WhiteSpace ==
  {"\t", "\n", "U+000B", "\f", "\r", " ", "U+00A0", "U+1680", "U+2000",
   "U+2001", "U+2002", "U+2003", "U+2004", "U+2005", "U+2006", "U+2007",
   "U+2008", "U+2009", "U+200A", "U+2028", "U+2029", "U+202F", "U+205F",
   "U+3000", "U+FEFF"}

RECURSIVE trimStart(_)
trimStart(s) ==
  IF s # <<>> /\ s[1] \in WhiteSpace THEN trimStart(Tail(s)) ELSE s

RECURSIVE trimEnd(_)
trimEnd(s) ==
  IF s # <<>> /\ s[Len(s)] \in WhiteSpace
  THEN trimEnd(SubSeq(s, 1, Len(s) - 1))
  ELSE s

\* The first index from i on at which s has no decimal digit.
RECURSIVE digitsEnd(_, _)
digitsEnd(s, i) ==
  IF i <= Len(s) /\ IsDigit(s[i]) THEN digitsEnd(s, i + 1) ELSE i

\* The whole number written by the decimal digits d from place i on, after
\* acc; 100000 once it reaches that.
RECURSIVE exponentDigits(_, _, _)
exponentDigits(d, i, acc) ==
  IF i > Len(d) \/ acc = 100000 THEN acc
  ELSE exponentDigits(d, i + 1,
                      IF acc * 10 + d[i] >= 100000 THEN 100000
                      ELSE acc * 10 + d[i])

\* The end of the decimals after a point at place dot, dot when s has no
\* point there.
fractionEnd(s, dot) ==
  IF dot <= Len(s) /\ s[dot] = "." THEN digitsEnd(s, dot + 1) ELSE dot

\* The first place of the digits of an exponent part that starts at e.
exponentStart(s, e) ==
  IF e < Len(s) /\ s[e + 1] \in {"+", "-"} THEN e + 2 ELSE e + 1

\* The exponent whose digits are the places start to end - 1 of s: it needs
\* a digit and nothing after its digits.
exponentValue(s, start, end) ==
  IF end = start \/ end # Len(s) + 1 THEN [ok |-> FALSE, value |-> 0]
  ELSE [ok |-> TRUE,
        value |->
          (IF s[start - 1] = "-" THEN -1 ELSE 1)
            * exponentDigits([i \in 1..(end - start) |->
                                DigitValue(s[start + i - 1])], 1, 0)]

\* The ExponentPart of s from place e on: none at the end of s.
exponentPart(s, e) ==
  IF e = Len(s) + 1 THEN [ok |-> TRUE, value |-> 0]
  ELSE IF s[e] \notin {"e", "E"} THEN [ok |-> FALSE, value |-> 0]
  ELSE exponentValue(s, exponentStart(s, e),
                     digitsEnd(s, exponentStart(s, e)))

\* The value of the digits with the point after place point and the
\* exponent given: there is a digit before the exponent.
scaled(neg, digits, point, exponent) ==
  IF digits = <<>> \/ ~exponent.ok THEN NaN
  ELSE decimalValue(neg, [i \in 1..Len(digits) |-> DigitValue(digits[i])],
                    point + exponent.value)

\* s with its point at place dot and its decimals ending before fracEnd.
pointAt(neg, s, dot, fracEnd) ==
  scaled(neg, SubSeq(s, 1, dot - 1) \o SubSeq(s, dot + 1, fracEnd - 1),
         dot - 1, exponentPart(s, fracEnd))

\* StrUnsignedDecimalLiteral other than Infinity: digits, a point, digits
\* and an exponent, with a digit before the exponent and one in it.
decimalLiteral(neg, s) ==
  pointAt(neg, s, digitsEnd(s, 1), fractionEnd(s, digitsEnd(s, 1)))

\* The digits d of a literal of the given radix.
radixDigits(d, radix) ==
  IF d = <<>> \/ \E i \in 1..Len(d) : d[i] \notin 0..(radix - 1) THEN NaN
  ELSE nearestDouble(FALSE, wholeLimbs(<<>>, d, 1, Len(d), radix), FALSE, 0)

\* NonDecimalIntegerLiteral: the digits s after 0x, 0o or 0b.
radixLiteral(s, radix) ==
  radixDigits([i \in 1..Len(s) |-> DigitValue(s[i])], radix)

\* The radix of the digits after 0x, 0o and 0b.
radixOf(c) ==
  CASE c \in {"x", "X"} -> 16
    [] c \in {"o", "O"} -> 8
    [] c \in {"b", "B"} -> 2

Infinity == <<"I", "n", "f", "i", "n", "i", "t", "y">>

\* The StrNumericLiteral t, trimmed and not empty: a literal of radix 16, 8
\* or 2, or a decimal literal that may have a sign.
numericLiteral(t, unsigned) ==
  IF Len(t) >= 2 /\ t[1] = "0" /\ t[2] \in {"x", "X", "o", "O", "b", "B"}
  THEN radixLiteral(SubSeq(t, 3, Len(t)), radixOf(t[2]))
  ELSE IF unsigned = Infinity THEN Infinite(t[1] = "-")
  ELSE decimalLiteral(t[1] = "-", unsigned)

\* Number(value) of the trimmed text t.
numberOf(t) ==
  IF t = <<>> THEN Zero(FALSE)
  ELSE numericLiteral(t, IF t[1] \in {"+", "-"} THEN Tail(t) ELSE t)

\* Number(value)
Number(s) == numberOf(trimEnd(trimStart(s)))

(***************************************************************************)
(* params.ts                                                               *)
(***************************************************************************)
\* A value that query.get returns: null, or a string.
NoValue == [null |-> TRUE, value |-> <<>>]

\* Number.isFinite(parsed) ? parsed : fallback
orFallback(parsed, fallback) == IF isFinite(parsed) THEN parsed ELSE fallback

readNumber(value, fallback) ==
  IF value.null THEN fallback
  ELSE orFallback(Number(value.value), fallback)

readBoolean(value, fallback) ==
  IF value.null THEN fallback
  ELSE value.value = <<"1">> \/ value.value = <<"t", "r", "u", "e">>

\* "%" and the two hexadecimal digits of a byte.
percentByte(byte) ==
  <<"%", Digits[(byte \div 16) + 1], Digits[(byte % 16) + 1]>>

\* The bytes of the character of a code in UTF-8, percent-encoded.
percentEncoded(code) ==
  IF code < 128 THEN percentByte(code)
  ELSE IF code < 2048
  THEN percentByte(192 + (code \div 64)) \o percentByte(128 + (code % 64))
  ELSE percentByte(224 + (code \div 4096))
         \o percentByte(128 + ((code \div 64) % 64))
         \o percentByte(128 + (code % 64))

\* The application/x-www-form-urlencoded serializer of a name or a value.
formEncode(s) ==
  LET unreserved(c) ==
        \/ codeOf(c) \in (48..57) \cup (65..90) \cup (97..122)
        \/ c \in {"*", "-", ".", "_"}
      encoded(c) ==
        IF unreserved(c) THEN <<c>>
        ELSE IF c = " " THEN <<"+">>
        ELSE percentEncoded(codeOf(c))
      RECURSIVE from(_)
      from(i) == IF i > Len(s) THEN <<>> ELSE encoded(s[i]) \o from(i + 1)
  IN  from(1)

\* The byte that "%" and two hexadecimal digits at place i of s stand for,
\* -1 when s has no such three characters there.
byteAt(s, i) ==
  IF i + 2 <= Len(s) /\ s[i] = "%" /\ DigitValue(s[i + 1]) >= 0
     /\ DigitValue(s[i + 2]) >= 0
  THEN 16 * DigitValue(s[i + 1]) + DigitValue(s[i + 2])
  ELSE -1

\* U+FFFD, which the decoder writes for bytes that are part of no
\* character.
Replacement == Other

\* The bytes that go on the character a first byte starts in UTF-8: how many
\* are needed, the bits of the code the first byte gives, and the bounds of
\* the next byte.  No byte is needed after a byte that starts no character.
leadByte(b) ==
  IF b \in 194..223
  THEN [needed |-> 1, code |-> b - 192, lower |-> 128, upper |-> 191]
  ELSE IF b \in 224..239
  THEN [needed |-> 2, code |-> b - 224,
        lower |-> IF b = 224 THEN 160 ELSE 128,
        upper |-> IF b = 237 THEN 159 ELSE 191]
  ELSE IF b \in 240..244
  THEN [needed |-> 3, code |-> b - 240,
        lower |-> IF b = 240 THEN 144 ELSE 128,
        upper |-> IF b = 244 THEN 143 ELSE 191]
  ELSE [needed |-> 0, code |-> 0, lower |-> 128, upper |-> 191]

\* The UTF-8 decoder of the parser from place i of s on, u being the
\* character begun: a plus sign is a space, a percent sign with two
\* hexadecimal digits a byte, any other character its own bytes.  A byte
\* that cannot go on the character begun ends it as U+FFFD and is read
\* again; so does the end of the text.  A character beyond U+FFFF is
\* written Other.
RECURSIVE utf8Decode(_, _, _)
utf8Decode(s, i, u) ==
  IF i > Len(s)
  THEN IF u.needed > 0 THEN <<Replacement>> ELSE <<>>
  ELSE IF u.needed > 0 /\ byteAt(s, i) \notin u.lower..u.upper
  THEN <<Replacement>> \o utf8Decode(s, i, leadByte(0))
  ELSE IF u.needed > 1
  THEN utf8Decode(s, i + 3,
                  [needed |-> u.needed - 1,
                   code |-> u.code * 64 + byteAt(s, i) - 128,
                   lower |-> 128, upper |-> 191])
  ELSE IF u.needed = 1
  THEN <<charOf(u.code * 64 + byteAt(s, i) - 128)>>
         \o utf8Decode(s, i + 3, leadByte(0))
  ELSE IF byteAt(s, i) = -1
  THEN <<IF s[i] = "+" THEN " " ELSE s[i]>>
         \o utf8Decode(s, i + 1, leadByte(0))
  ELSE IF byteAt(s, i) < 128
  THEN <<charOf(byteAt(s, i))>> \o utf8Decode(s, i + 3, leadByte(0))
  ELSE IF leadByte(byteAt(s, i)).needed > 0
  THEN utf8Decode(s, i + 3, leadByte(byteAt(s, i)))
  ELSE <<Replacement>> \o utf8Decode(s, i + 3, leadByte(0))

\* The decoding of a name or a value by the parser: the text is
\* percent-decoded to bytes and the bytes are read as UTF-8.
formDecode(s) == utf8Decode(s, 1, leadByte(0))

\* URLSearchParams.toString of the pairs set so far, in the order set.
RECURSIVE queryToString(_)
queryToString(pairs) ==
  IF pairs = <<>> THEN <<>>
  ELSE formEncode(pairs[1].key) \o <<"=">> \o formEncode(pairs[1].value)
         \o (IF Len(pairs) = 1 THEN <<>>
             ELSE <<"&">> \o queryToString(Tail(pairs)))

\* The first index from i on at which s has the character c, Len(s) + 1 if
\* it has none.
RECURSIVE indexOf(_, _, _)
indexOf(s, c, i) ==
  IF i > Len(s) \/ s[i] = c THEN i ELSE indexOf(s, c, i + 1)

\* new URLSearchParams(search): the text parsed, a leading "?" removed.
URLSearchParams(search) ==
  IF search # <<>> /\ search[1] = "?" THEN Tail(search) ELSE search

\* query.get(key) from the pair that starts at i on: the pairs are
\* separated by "&", an empty one is skipped, the name ends at the first
\* "=" and the value is the rest, or empty without "="; the value of the
\* first pair of that name, null when there is none.
RECURSIVE queryGet(_, _, _)
queryGet(query, key, i) ==
  IF i > Len(query) THEN NoValue
  ELSE IF indexOf(query, "&", i) > i
          /\ formDecode(SubSeq(query, i,
                               Min(indexOf(query, "=", i),
                                   indexOf(query, "&", i)) - 1)) = key
  THEN [null |-> FALSE,
        value |-> formDecode(SubSeq(query,
                                    Min(indexOf(query, "=", i),
                                        indexOf(query, "&", i)) + 1,
                                    indexOf(query, "&", i) - 1))]
  ELSE queryGet(query, key, indexOf(query, "&", i) + 1)

\* The location.search that replaceState leaves for a query string.
locationSearch(search) == IF search = <<>> THEN <<>> ELSE <<"?">> \o search

parseParams(search) ==
  [shape |-> defaultParams.shape,
   includeLid |->
     readBoolean(queryGet(URLSearchParams(search), <<"l", "i", "d">>, 1),
                 defaultParams.includeLid),
   insideWidth |->
     readNumber(queryGet(URLSearchParams(search), <<"w">>, 1),
                defaultParams.insideWidth),
   insideDepth |->
     readNumber(queryGet(URLSearchParams(search), <<"d">>, 1),
                defaultParams.insideDepth),
   insideHeight |->
     readNumber(queryGet(URLSearchParams(search), <<"h">>, 1),
                defaultParams.insideHeight),
   includeInsideRadius |->
     readBoolean(queryGet(URLSearchParams(search),
                          <<"r", "a", "d", "i", "u", "s">>, 1),
                 defaultParams.includeInsideRadius),
   insideRadius |->
     readNumber(queryGet(URLSearchParams(search), <<"r">>, 1),
                defaultParams.insideRadius),
   thicknessMode |->
     IF queryGet(URLSearchParams(search), <<"t", "m", "o", "d", "e">>, 1)
          = [null |-> FALSE, value |-> <<"c", "u", "s", "t", "o", "m">>]
     THEN "custom" ELSE defaultParams.thicknessMode,
   thickness |->
     readNumber(queryGet(URLSearchParams(search), <<"t">>, 1),
                defaultParams.thickness),
   wallThickness |->
     readNumber(queryGet(URLSearchParams(search), <<"t", "w">>, 1),
                defaultParams.wallThickness),
   topThickness |->
     readNumber(queryGet(URLSearchParams(search), <<"t", "t">>, 1),
                defaultParams.topThickness),
   bottomThickness |->
     readNumber(queryGet(URLSearchParams(search), <<"t", "b">>, 1),
                defaultParams.bottomThickness),
   clearance |->
     readNumber(queryGet(URLSearchParams(search), <<"c">>, 1),
                defaultParams.clearance)]

\* `if (params.x !== defaultParams.x) query.set(key, text)` for a check
\* box and for the thickness mode.
setUnlessDefault(p, field, key, text) ==
  IF p[field] # defaultParams[field]
  THEN <<[key |-> key, value |-> text]>>
  ELSE <<>>

\* `if (params.x !== defaultParams.x)
\*    query.set(key, roundTo(params.x).toString())`
setNumberUnlessDefault(p, field, key) ==
  IF ~strictEquals(p[field], defaultParams[field])
  THEN <<[key |-> key, value |-> numberToString(roundTo(p[field]))]>>
  ELSE <<>>

booleanToString(b) == IF b THEN <<"1">> ELSE <<"0">>

\* The characters of a thickness mode.
modeToString(mode) ==
  IF mode = "custom" THEN <<"c", "u", "s", "t", "o", "m">>
  ELSE <<"u", "n", "i", "f", "o", "r", "m">>

paramsToSearch(p) ==
  queryToString(
    setUnlessDefault(p, "includeLid", <<"l", "i", "d">>,
                     booleanToString(p.includeLid))
    \o setNumberUnlessDefault(p, "insideWidth", <<"w">>)
    \o setNumberUnlessDefault(p, "insideDepth", <<"d">>)
    \o setNumberUnlessDefault(p, "insideHeight", <<"h">>)
    \o setUnlessDefault(p, "includeInsideRadius",
                        <<"r", "a", "d", "i", "u", "s">>,
                        booleanToString(p.includeInsideRadius))
    \o setNumberUnlessDefault(p, "insideRadius", <<"r">>)
    \o setUnlessDefault(p, "thicknessMode", <<"t", "m", "o", "d", "e">>,
                        modeToString(p.thicknessMode))
    \o setNumberUnlessDefault(p, "thickness", <<"t">>)
    \o setNumberUnlessDefault(p, "wallThickness", <<"t", "w">>)
    \o setNumberUnlessDefault(p, "topThickness", <<"t", "t">>)
    \o setNumberUnlessDefault(p, "bottomThickness", <<"t", "b">>)
    \o setNumberUnlessDefault(p, "clearance", <<"c">>))

\* The lengths in units of the parameters p of the App.
Lengths(p) ==
  [p EXCEPT !.insideWidth = Length(@), !.insideDepth = Length(@),
            !.insideHeight = Length(@), !.insideRadius = Length(@),
            !.thickness = Length(@), !.wallThickness = Length(@),
            !.topThickness = Length(@), !.bottomThickness = Length(@),
            !.clearance = Length(@)]

(***************************************************************************)
(* cad.ts: thickness and radius                                            *)
(***************************************************************************)
resolveThickness(p) ==
  IF p.thicknessMode = "uniform"
  THEN [wall |-> p.thickness, top |-> p.thickness, bottom |-> p.thickness]
  ELSE [wall |-> p.wallThickness, top |-> p.topThickness,
        bottom |-> p.bottomThickness]

\* 0.01
RadiusEps == 200
\* clampRadius taking the larger of the radius and the limit.
clampRadius_Max(radius, maxRadius) ==
  Max(radius, Max(0, maxRadius - RadiusEps))

\* clampRadius without the epsilon.
clampRadius_NoEps(radius, maxRadius) == Min(radius, Max(0, maxRadius))

\* clampRadius returning the radius as given.
clampRadius_Unclamped(radius, maxRadius) == radius

clampRadius(radius, maxRadius) ==
  LET limit == Max(0, maxRadius - RadiusEps)
  IN  Min(radius, limit)

(***************************************************************************)
(* cad.ts: the kernel adapter.  Each operator returns what the call        *)
(* returned (shape), whether it returned normally (ok) and the adapter     *)
(* calls it made, in order (calls).                                        *)
(***************************************************************************)
NoShape == [kind |-> "none"]
Ok(shape, calls) ==
  [ok |-> TRUE, shape |-> shape, calls |-> calls, error |-> ""]
\* error is the message of the Error the adapter threw, or names the
\* exception the kernel threw.
Raise(thrown, calls) ==
  [ok |-> FALSE, shape |-> NoShape, calls |-> calls, error |-> thrown]
\* r, returned or raised after the calls given.
After(calls, r) == [r EXCEPT !.calls = calls \o @]

\* What the kernel throws from Build of a pipe shell that has no profile,
\* and from the last call of the transform constructor.
PipeShellException == "kernel: PipeShell.Build without profile"
TransformException == "kernel: Transform candidate 3"

makePnt(x, y, z) == <<x, y, z>>

makeEdgeLine(p1, p2) == [type |-> "line", a |-> p1, m |-> p1, b |-> p2]

makeEdgeArc(p1, pmid, p2) == [type |-> "arc", a |-> p1, m |-> pmid, b |-> p2]

makeWireFromEdges(edges) == edges

\* new Ctor(p1, p2), the first candidate of makeBoxAt.
makeBoxAt(x, y, z, width, depth, height) ==
  Ok([kind |-> "box", p1 |-> makePnt(x, y, z),
      p2 |-> makePnt(x + width, y + depth, z + height)],
     <<"makeBoxAt">>)

\* for (const attempt of attempts) { try { ...; return/break } catch {} }:
\* the first candidate from i on that completes, 0 if none does.
RECURSIVE firstAttempt(_, _)
firstAttempt(attempts, i) ==
  IF i > Len(attempts) THEN 0
  ELSE IF attempts[i] THEN i
  ELSE firstAttempt(attempts, i + 1)

\* makeFaceFromWire followed by makePrism; the first raises on a kernel
\* build that cannot make the face, the second when no constructor call
\* completes.
makePrism(k, wire, height) ==
  IF ~k.faceOk
  THEN Raise("OpenCascade face builder did not complete.",
             <<"makeFaceFromWire">>)
  ELSE IF firstAttempt(k.prism, 1) = 0
  THEN Raise("OpenCascade prism constructor could not extrude shape.",
             <<"makeFaceFromWire", "makePrism">>)
  ELSE Ok([kind |-> "prism", wire |-> wire, height |-> height],
          <<"makeFaceFromWire", "makePrism">>)

\* The pipe shell after the loop over the calls of Add: `if (!added)` only
\* logs, and Build, MakeSolid and Shape follow in either case; without a
\* profile Build throws the kernel's exception.  On a build without the
\* pipe classes the adapter throws its own Error.
pipeShell(k, wire, spineWire, added) ==
  IF k.shell = "absent"
  THEN Raise("OpenCascade pipe extrusion is not available.",
             <<"makePipeFromWire">>)
  ELSE IF added # 0
  THEN Ok([kind |-> "pipe", wire |-> wire, spine |-> spineWire],
          <<"makePipeFromWire">>)
  ELSE IF k.shell = "checks"
  THEN Raise(PipeShellException, <<"makePipeFromWire">>)
  ELSE Ok([kind |-> "pipe", wire |-> <<>>, spine |-> spineWire],
          <<"makePipeFromWire">>)

makePipeFromWire(k, wire, height, z) ==
  LET spineEdge == makeEdgeLine(makePnt(0, 0, z), makePnt(0, 0, z + height))
      spineWire == makeWireFromEdges(<<spineEdge>>)
  IN  pipeShell(k, wire, spineWire, firstAttempt(k.adds, 1))

makeCylinder(radius, height) ==
  [kind |-> "cylinder", radius |-> radius, height |-> height]

\* translateShape on kernel build k: new TransformCtor(shape, trsf, true),
\* else new TransformCtor(shape, trsf), else new TransformCtor(trsf) with
\* Perform; the last attempt's exception is not caught.
translateShape(k, shape, x, y, z) ==
  IF firstAttempt(k.transform, 1) = 0
  THEN Raise(TransformException, <<"translateShape">>)
  ELSE Ok([kind |-> "translate", shape |-> shape, d |-> <<x, y, z>>],
          <<"translateShape">>)

makeCylinderAt(k, radius, height, x, y, z) ==
  IF x = 0 /\ y = 0 /\ z = 0
  THEN Ok(makeCylinder(radius, height), <<"makeCylinder">>)
  ELSE After(<<"makeCylinder">>,
             translateShape(k, makeCylinder(radius, height), x, y, z))

\* buildBoolean: new Ctor(shapeA, shapeB), or on a kernel build where that
\* raises, new Ctor() with SetArguments([shapeA]) and SetTools([shapeB]).
buildBoolean(k, opName, shapeA, shapeB) ==
  IF k.cutCtor
  THEN [kind |-> opName, arg |-> shapeA, tool |-> shapeB, via |-> "ctor"]
  ELSE [kind |-> opName, arg |-> shapeA, tool |-> shapeB, via |-> "builder"]

\* cutShape handing its operands to buildBoolean the other way round.
cutShape_Reversed(k, outer, inner) == buildBoolean(k, "cut", inner, outer)

cutShape(k, outer, inner) == buildBoolean(k, "cut", outer, inner)

\* makeCompound adding the shapes last to first.
makeCompound_Reversed(shapes) ==
  [kind |-> "compound",
   members |-> [i \in 1..Len(shapes) |-> shapes[Len(shapes) + 1 - i]]]

makeCompound(shapes) == [kind |-> "compound", members |-> shapes]

(***************************************************************************)
(* cad.ts: buildRoundedRectPrism                                           *)
(***************************************************************************)
\* r / Math.sqrt(2) to the nearest unit: r times 0.7071 0678 1187, by long
\* multiplication in groups of four digits, r being r1 * 10000 + r0.
Diag(r) ==
  LET r1 == r \div 10000
      r0 == r % 10000
      low == r1 * 1187 + r0 * 678 + (r0 * 1187) \div 10000
      high == r1 * 678 + r0 * 7071 + low \div 10000
  IN  r1 * 7071 + (high + 5000) \div 10000

\* The eight edges of the rounded profile with corner radius r, in the
\* order they are handed to makeWireFromEdges.
roundedRectWire(x, y, z, width, depth, r, diag) ==
  LET x0 == x
      x1 == x + width
      y0 == y
      y1 == y + depth
      p1 == makePnt(x0 + r, y0, z)
      p2 == makePnt(x1 - r, y0, z)
      p3 == makePnt(x1, y0 + r, z)
      p4 == makePnt(x1, y1 - r, z)
      p5 == makePnt(x1 - r, y1, z)
      p6 == makePnt(x0 + r, y1, z)
      p7 == makePnt(x0, y1 - r, z)
      p8 == makePnt(x0, y0 + r, z)
      midTR == makePnt(x1 - r + diag, y0 + r - diag, z)
      midBR == makePnt(x1 - r + diag, y1 - r + diag, z)
      midBL == makePnt(x0 + r - diag, y1 - r + diag, z)
      midTL == makePnt(x0 + r - diag, y0 + r - diag, z)
  IN  makeWireFromEdges(<<makeEdgeLine(p1, p2), makeEdgeArc(p2, midTR, p3),
                          makeEdgeLine(p3, p4), makeEdgeArc(p4, midBR, p5),
                          makeEdgeLine(p5, p6), makeEdgeArc(p6, midBL, p7),
                          makeEdgeLine(p7, p8), makeEdgeArc(p8, midTL, p1)>>)

\* The adapter calls that build that wire.
WireCalls ==
  <<"makeEdgeLine", "makeEdgeArc", "makeEdgeLine", "makeEdgeArc",
    "makeEdgeLine", "makeEdgeArc", "makeEdgeLine", "makeEdgeArc",
    "makeWireFromEdges">>

\* The pipe attempted whether or not the prism raised.
prismOrPipe_Both(prism, pipe) == After(WireCalls \o prism.calls, pipe)

\* try { face, prism } catch { pipe }: the pipe is attempted only when the
\* prism raised.
prismOrPipe(prism, pipe) ==
  IF prism.ok
  THEN Ok(prism.shape, WireCalls \o prism.calls)
  ELSE After(WireCalls \o prism.calls, pipe)

extrudeWire(k, wire, height, z) ==
  prismOrPipe(makePrism(k, wire, height),
              makePipeFromWire(k, wire, height, z))

\* buildRoundedRectPrism degrading only for a negative radius.
roundedRectPrism_ZeroRounded(k, x, y, z, width, depth, height, r) ==
  IF r < 0
  THEN makeBoxAt(x, y, z, width, depth, height)
  ELSE extrudeWire(k, roundedRectWire(x, y, z, width, depth, r, Diag(r)),
                   height, z)

\* buildRoundedRectPrism once the radius is clamped to r.
roundedRectPrism(k, x, y, z, width, depth, height, r) ==
  IF r <= 0
  THEN makeBoxAt(x, y, z, width, depth, height)
  ELSE IF width - r * 2 <= 0 \/ depth - r * 2 <= 0
  THEN makeBoxAt(x, y, z, width, depth, height)
  ELSE extrudeWire(k, roundedRectWire(x, y, z, width, depth, r, Diag(r)),
                   height, z)

\* maxRadius is min(width, depth) / 2; for an odd span the half unit is
\* rounded up, so that the clamped radius is positive exactly when the
\* code's is, and is the code's to within half a unit.
buildRoundedRectPrism(k, x, y, z, width, depth, height, radius) ==
  roundedRectPrism(k, x, y, z, width, depth, height,
                   clampRadius(radius, (Min(width, depth) + 1) \div 2))

\* cutShape(outer, inner) after two adapter results made in the order
\* first, second: the second is not attempted when the first raised, and
\* the cut is not attempted when either raised.
cutOf(k, first, second, outer, inner) ==
  IF ~first.ok THEN first
  ELSE IF ~second.ok THEN After(first.calls, second)
  ELSE Ok(cutShape(k, outer.shape, inner.shape),
          first.calls \o second.calls \o <<"cutShape">>)

(***************************************************************************)
(* cad.ts: buildBox, buildCylinder, buildRoundedInnerTool, buildLid        *)
(***************************************************************************)
\* buildBox with the top thickness rule of buildCylinder.
boxTopThickness_AsCylinder(includeLid, top) == IF includeLid THEN 0 ELSE top

\* buildBox adding the top thickness whenever a lid is present.
boxTopThickness_WithLid(includeLid, top) == IF includeLid THEN top ELSE 0

\* buildBox: `const topThickness = 0`.
boxTopThickness(includeLid, top) == 0

\* cutShape(outerShell, inner); inner is built first.
boxCut(k, inner, outerShell) ==
  cutOf(k, inner, outerShell, outerShell, inner)

\* buildBox once the thickness is resolved.
boxWith(k, p, wall, bottom, topThickness) ==
  boxCut(k,
         buildRoundedRectPrism(k, wall, wall, bottom, p.insideWidth,
                               p.insideDepth, p.insideHeight,
                               IF p.includeInsideRadius THEN p.insideRadius
                               ELSE 0),
         buildRoundedRectPrism(k, 0, 0, 0, p.insideWidth + wall * 2,
                               p.insideDepth + wall * 2,
                               p.insideHeight + bottom + topThickness,
                               IF p.includeInsideRadius
                               THEN p.insideRadius + wall ELSE 0))

boxResolved(k, p, t) ==
  boxWith(k, p, t.wall, t.bottom, boxTopThickness(p.includeLid, t.top))

buildBox(k, p) == boxResolved(k, p, resolveThickness(p))

\* buildCylinder once the thickness is resolved.
cylinderWith(k, p, wall, bottom, topThickness, innerRadius) ==
  boxCut(k, makeCylinderAt(k, innerRadius, p.insideHeight, 0, 0, bottom),
         makeCylinderAt(k, innerRadius + wall,
                        p.insideHeight + bottom + topThickness, 0, 0, 0))

cylinderResolved(k, p, t) ==
  cylinderWith(k, p, t.wall, t.bottom, IF p.includeLid THEN 0 ELSE t.top,
               p.insideWidth \div 2)

buildCylinder(k, p) == cylinderResolved(k, p, resolveThickness(p))

\* buildRoundedInnerTool once the thickness is resolved.
innerToolResolved(k, p, t) ==
  buildRoundedRectPrism(k, t.wall, t.wall, t.bottom, p.insideWidth,
                        p.insideDepth, p.insideHeight, p.insideRadius)

\* NoShape stands for null.
buildRoundedInnerTool(k, p) ==
  IF ~p.includeInsideRadius
  THEN Ok(NoShape, <<>>)
  ELSE innerToolResolved(k, p, resolveThickness(p))

\* lidInnerSpan adding the clearance on one side only.
lidInnerSpan_OneSide(baseOuterSpan, clearance) == baseOuterSpan + clearance

\* buildLid: the lid cavity's span along one axis.
lidInnerSpan(baseOuterSpan, clearance) == baseOuterSpan + clearance * 2

\* lidShift leaving out the lid's wall.
lidShift_ClearanceOnly(clearance, wall) == -clearance

\* buildLid: the x and y components of the lid's translation.
lidShift(clearance, wall) == -(clearance + wall)

\* cutShape(outer, inner), outer being built first, then translateShape.
lidCut(k, outer, inner, shift) ==
  IF ~outer.ok THEN outer
  ELSE IF ~inner.ok THEN After(outer.calls, inner)
  ELSE After(outer.calls \o inner.calls \o <<"cutShape">>,
             translateShape(k, cutShape(k, outer.shape, inner.shape),
                            shift, shift, 0))

\* buildLid, the cylinder branch.
lidCylinder(k, wall, top, lidHeight, innerRadius, shift) ==
  lidCut(k, makeCylinderAt(k, innerRadius + wall, lidHeight, 0, 0, 0),
         makeCylinderAt(k, innerRadius, lidHeight - top, 0, 0, 0), shift)

\* buildLid, the box branch.
lidBox(k, wall, top, lidHeight, innerWidth, innerDepth, innerRadius, shift) ==
  lidCut(k,
         buildRoundedRectPrism(k, 0, 0, 0, innerWidth + wall * 2,
                               innerDepth + wall * 2, lidHeight,
                               innerRadius + wall),
         buildRoundedRectPrism(k, wall, wall, 0, innerWidth, innerDepth,
                               lidHeight - top, innerRadius),
         shift)

\* buildLid once thickness, cavity spans and height are computed.
lidWith(k, p, wall, top, lidHeight, innerWidth, innerDepth) ==
  IF p.shape = "cylinder"
  THEN lidCylinder(k, wall, top, lidHeight, innerWidth \div 2,
                   lidShift(p.clearance, wall))
  ELSE lidBox(k, wall, top, lidHeight, innerWidth, innerDepth,
              (IF p.includeInsideRadius THEN p.insideRadius + wall ELSE 0)
                + p.clearance,
              lidShift(p.clearance, wall))

\* lidHeight leaving out the top thickness.
lidHeight_NoTop(insideHeight, bottom, top) == insideHeight + bottom

\* buildLid: the lid's outer height.
lidHeight(insideHeight, bottom, top) == insideHeight + bottom + top

lidResolved(k, p, baseOuter, t) ==
  lidWith(k, p, t.wall, t.top, lidHeight(p.insideHeight, t.bottom, t.top),
          lidInnerSpan(baseOuter.width, p.clearance),
          lidInnerSpan(baseOuter.depth, p.clearance))

buildLid(k, p, baseOuter) == lidResolved(k, p, baseOuter, resolveThickness(p))

(***************************************************************************)
(* cad.ts: writeStep.  A file is [exists, data]; data is a byte sequence,  *)
(* here <<>> or the one-element sequence holding the written model.        *)
(***************************************************************************)
filenames == <<"/tmp/model.step", "/model.step", "model.step">>
FileNames == {filenames[i] : i \in 1..Len(filenames)}
Absent == [exists |-> FALSE, data |-> <<>>]
\* The kernel's virtual file system before anything was written.
NoFiles == [f \in FileNames |-> Absent]
File(data) == [exists |-> TRUE, data |-> data]
Serialize(shape) == <<shape>>

\* One writer.Write(target) on kernel build k: the status it returns
\* (1 is IFSelect_RetDone; "throws" for an exception) and the file system
\* it leaves.
WriterWrite(k, shape, target, files) ==
  CASE k.write = "ok" ->
         [status |-> 1, threw |-> FALSE,
          files |-> [files EXCEPT ![target] = File(Serialize(shape))]]
    [] k.write = "rootonly" ->
         IF target = "/tmp/model.step"
         THEN [status |-> 0, threw |-> TRUE, files |-> files]
         ELSE [status |-> 1, threw |-> FALSE,
               files |-> [files EXCEPT ![target] = File(Serialize(shape))]]
    [] k.write = "empty" ->
         [status |-> 1, threw |-> FALSE,
          files |-> [files EXCEPT ![target] = File(<<>>)]]
    [] k.write = "nofile" ->
         [status |-> 1, threw |-> FALSE, files |-> files]
    [] k.write = "throws" ->
         [status |-> 0, threw |-> TRUE, files |-> files]
    [] k.write = "badstatus" ->
         [status |-> 2, threw |-> FALSE,
          files |-> [files EXCEPT ![target] = File(<<>>)]]
    [] k.write = "toolonly" ->
         IF shape.kind \in {"box", "prism", "pipe"}
         THEN [status |-> 1, threw |-> FALSE,
               files |-> [files EXCEPT ![target] = File(Serialize(shape))]]
         ELSE [status |-> 1, threw |-> FALSE, files |-> files]

\* tryWrite(target): every variant and write function of one kernel build
\* behaves alike, so the loops over them repeat one attempt.
tryWriteResult(w, target) ==
  IF w.threw THEN [ok |-> FALSE, files |-> w.files]
  ELSE IF w.status # 1 /\ w.status # 0
  THEN [ok |-> FALSE, files |-> w.files]
  ELSE [ok |-> w.files[target].exists, files |-> w.files]

tryWrite(k, shape, target, files) ==
  tryWriteResult(WriterWrite(k, shape, target, files), target)

\* unlink leaving the file where it is.
unlink_Keep(files, filename) == files

\* oc.FS.unlink(filename)
unlink(files, filename) == [files EXCEPT ![filename] = Absent]

RECURSIVE writeStepFrom(_, _, _, _)
\* One round of the loop over filenames, t being tryWrite's outcome.
writeStepRound(k, shape, i, t) ==
  IF t.ok
  THEN [ok |-> TRUE, data |-> t.files[filenames[i]].data,
        files |-> t.files, error |-> ""]
  ELSE writeStepFrom(k, shape, i + 1, t.files)

writeStepFrom(k, shape, i, files) ==
  IF i > Len(filenames)
  THEN [ok |-> FALSE, data |-> <<>>, files |-> files,
        error |-> "STEP writer did not create output file."]
  ELSE writeStepRound(k, shape, i,
                      tryWrite(k, shape, filenames[i],
                               unlink(files, filenames[i])))

writeStep(k, shape, files) == writeStepFrom(k, shape, 1, files)

(***************************************************************************)
(* cad.ts: getOc, buildStepFile, buildDebugInnerTool                       *)
(***************************************************************************)
NoResult ==
  [fn |-> "none", params |-> params, status |-> "none", error |-> "",
   data |-> <<>>, shape |-> NoShape, calls |-> <<>>]

\* What a call returns when an adapter call raised: it rejects with what
\* was thrown.
Failed(fn, p, built, files) ==
  [fn |-> fn, params |-> p, status |-> "error",
   error |-> built.error,
   data |-> <<>>, shape |-> NoShape, calls |-> built.calls, files |-> files]

\* What a call returns after writeStep returned or raised w.
Written(fn, p, built, w) ==
  [fn |-> fn, params |-> p, status |-> IF w.ok THEN "ok" ELSE "error",
   error |-> w.error, data |-> w.data, shape |-> built.shape,
   calls |-> built.calls \o <<"writeStep">>, files |-> w.files]

\* return writeStep(oc, shape)
export(fn, k, p, built, files) ==
  IF ~built.ok THEN Failed(fn, p, built, files)
  ELSE Written(fn, p, built, writeStep(k, built.shape, files))

\* buildStepFile: the base alone, or the compound of base and lid.
assemble(p, base, lid) ==
  IF ~base.ok THEN base
  ELSE IF ~p.includeLid THEN base
  ELSE IF ~lid.ok THEN After(base.calls, lid)
  ELSE Ok(makeCompound(<<base.shape, lid.shape>>),
          base.calls \o lid.calls \o <<"makeCompound">>)

\* buildStepFile: the base's outer footprint handed to buildLid.
baseOuterOf(p, baseOuterWidth, wall) ==
  [width |-> baseOuterWidth,
   depth |-> IF p.shape = "cylinder" THEN baseOuterWidth
             ELSE p.insideDepth + wall * 2]

stepLid(k, p, wall) ==
  buildLid(k, p, baseOuterOf(p, p.insideWidth + wall * 2, wall))

\* buildStepFile: the shape handed to writeStep.
stepShape(k, p) ==
  assemble(p,
           IF p.shape = "cylinder" THEN buildCylinder(k, p)
           ELSE buildBox(k, p),
           stepLid(k, p, resolveThickness(p).wall))

\* The synchronous part of buildStepFile, after the kernel promise resolved.
buildStepFile(k, p, files) ==
  export("buildStepFile", k, p, stepShape(k, p), files)

\* buildDebugInnerTool: `if (!tool) return null`, else the export.
exportTool(k, p, tool, files) ==
  IF tool.ok /\ tool.shape = NoShape
  THEN [fn |-> "buildDebugInnerTool", params |-> p, status |-> "null",
        error |-> "", data |-> <<>>, shape |-> NoShape,
        calls |-> tool.calls, files |-> files]
  ELSE export("buildDebugInnerTool", k, p, tool, files)

\* The part of buildDebugInnerTool after the kernel promise resolved.
buildDebugInnerTool(k, p, files) ==
  CHOOSE r \in {exportTool(k, p, tool, files) :
                  tool \in {buildRoundedInnerTool(k, p)}} : TRUE

Result(r) ==
  [fn |-> r.fn, params |-> r.params, status |-> r.status, error |-> r.error,
   data |-> r.data, shape |-> r.shape, calls |-> r.calls]

\* What a call returns when the kernel promise rejected.
InitError == "kernel initialisation failed"
InitFailed(fn, p) ==
  [fn |-> fn, params |-> p, status |-> "error",
   error |-> InitError, data |-> <<>>,
   shape |-> NoShape, calls |-> <<>>]

\* What is thrown by the kernel and its loader rather than by the adapter.
KernelExceptions == {InitError, PipeShellException, TransformException}

\* null, and a value that is not null.
Null == [null |-> TRUE]
Some(value) == [null |-> FALSE, value |-> value]

\* The useState initial values of App; nothing is mounted, logged or
\* downloaded yet.
AppInit ==
  /\ mounted = FALSE
  /\ status = "idle"
  /\ error = Null
  /\ debugLog = <<>>
  /\ previewMesh = Null
  /\ stepData = Null
  /\ gen = <<>>
  /\ builds = 0
  /\ cadDebug = <<>>
  /\ downloaded = Null

\* cad.ts used without the App: no window, so debugLog records nothing.
NoApp == AppInit /\ urlDebug = FALSE

Init ==
  /\ params \in ParamSpace
  /\ kernel \in KernelBuilds
  /\ ocPromise = "null"
  /\ initCalls = 0
  /\ waiting = <<>>
  /\ out = NoResult
  /\ prev = NoResult
  /\ fs = NoFiles
  /\ NoApp

\* getOc() calling initOpenCascade every time.
getOc_NoMemo == ocPromise' = "pending" /\ initCalls' = initCalls + 1

\* getOc() starting initOpenCascade again once the memoized promise rejected.
getOc_RetryRejected ==
  IF ocPromise \in {"null", "rejected"}
  THEN ocPromise' = "pending" /\ initCalls' = initCalls + 1
  ELSE UNCHANGED <<ocPromise, initCalls>>

\* getOc(): the first call starts initOpenCascade and memoizes its promise.
\* The promise returned is the one made by call number initCalls' of
\* initOpenCascade.
getOc ==
  IF ocPromise = "null"
  THEN ocPromise' = "pending" /\ initCalls' = initCalls + 1
  ELSE UNCHANGED <<ocPromise, initCalls>>

\* A call suspended at `await getOc()`, with the promise it awaits.
Awaiting(fn, p, promise) == [fn |-> fn, params |-> p, oc |-> promise]

\* A caller invokes buildStepFile(params); it runs up to `await getOc()`.
CallBuildStepFile ==
  /\ Len(waiting) < MaxWaiting
  /\ getOc
  /\ waiting' = Append(waiting, Awaiting("buildStepFile", params, initCalls'))
  /\ UNCHANGED <<params, kernel, out, prev, fs, appVars>>

\* buildDebugInnerTool awaiting getOc() before it looks at the parameters.
CallBuildDebugInnerTool_KernelFirst ==
  /\ Len(waiting) < MaxWaiting
  /\ getOc
  /\ IF params.shape # "box" \/ ~params.includeInsideRadius
     THEN /\ out' = [fn |-> "buildDebugInnerTool", params |-> params,
                     status |-> "null", error |-> "", data |-> <<>>,
                     shape |-> NoShape, calls |-> <<>>]
          /\ prev' = out
          /\ UNCHANGED <<params, kernel, waiting, fs, appVars>>
     ELSE /\ waiting' = Append(waiting, Awaiting("buildDebugInnerTool",
                                                 params, initCalls'))
          /\ UNCHANGED <<params, kernel, out, prev, fs, appVars>>

\* A caller invokes buildDebugInnerTool(params); it returns null at once or
\* runs up to `await getOc()`.
CallBuildDebugInnerTool ==
  IF params.shape # "box" \/ ~params.includeInsideRadius
  THEN /\ out' = [fn |-> "buildDebugInnerTool", params |-> params,
                  status |-> "null", error |-> "", data |-> <<>>,
                  shape |-> NoShape, calls |-> <<>>]
       /\ prev' = out
       /\ UNCHANGED <<params, kernel, ocPromise, initCalls, waiting, fs,
                      appVars>>
  ELSE /\ Len(waiting) < MaxWaiting
       /\ getOc
       /\ waiting' = Append(waiting, Awaiting("buildDebugInnerTool",
                                              params, initCalls'))
       /\ UNCHANGED <<params, kernel, out, prev, fs, appVars>>

\* initOpenCascade's promise settles.
InitResolves ==
  /\ ocPromise = "pending"
  /\ ocPromise' = "resolved"
  /\ UNCHANGED <<params, kernel, initCalls, waiting, out, prev, fs, appVars>>

InitRejects ==
  /\ ocPromise = "pending"
  /\ ocPromise' = "rejected"
  /\ UNCHANGED <<params, kernel, initCalls, waiting, out, prev, fs, appVars>>

\* A call ends with r: its result, and the file system it leaves.  prev
\* keeps the result of the call that ended before it.
Returns(r) == out' = Result(r) /\ prev' = out /\ fs' = r.files

\* The oldest waiting call continues after its await and runs to its end.
ResumeBuildStepFile ==
  /\ waiting # <<>>
  /\ Head(waiting).fn = "buildStepFile"
  /\ ocPromise \in {"resolved", "rejected"}
  /\ IF ocPromise = "rejected"
     THEN out' = InitFailed("buildStepFile", Head(waiting).params)
          /\ prev' = out /\ fs' = fs
     ELSE Returns(buildStepFile(kernel, Head(waiting).params, fs))
  /\ waiting' = Tail(waiting)
  /\ UNCHANGED <<params, kernel, ocPromise, initCalls, appVars>>

ResumeBuildDebugInnerTool ==
  /\ waiting # <<>>
  /\ Head(waiting).fn = "buildDebugInnerTool"
  /\ ocPromise \in {"resolved", "rejected"}
  /\ IF ocPromise = "rejected"
     THEN out' = InitFailed("buildDebugInnerTool", Head(waiting).params)
          /\ prev' = out /\ fs' = fs
     ELSE Returns(buildDebugInnerTool(kernel, Head(waiting).params, fs))
  /\ waiting' = Tail(waiting)
  /\ UNCHANGED <<params, kernel, ocPromise, initCalls, appVars>>

Next ==
  \/ CallBuildStepFile
  \/ CallBuildDebugInnerTool
  \/ InitResolves
  \/ InitRejects
  \/ ResumeBuildStepFile
  \/ ResumeBuildDebugInnerTool

Spec == Init /\ [][Next]_vars

(***************************************************************************)
(* App.tsx: the dimensions the UI derives from the parameters              *)
(***************************************************************************)
\* outerDims of the App for the lengths p: width, depth and height are the
\* doubles the UI shows.
outerDims(p) ==
  LET uniform == p.thicknessMode = "uniform"
      wall == IF uniform THEN p.thickness ELSE p.wallThickness
      bottom == IF uniform THEN p.thickness ELSE p.bottomThickness
      top == 0
      width == DoubleSum(Double(p.insideWidth), Twice(Double(wall)))
      depth == DoubleSum(Double(p.insideDepth), Twice(Double(wall)))
      height == DoubleSum(DoubleSum(Double(p.insideHeight), Double(bottom)),
                          Double(top))
  IN  [width |-> roundTo(width), depth |-> roundTo(depth),
       height |-> roundTo(height), wall |-> wall, bottom |-> bottom,
       top |-> top]

\* outerDims(p) for every parameter record of ParamSpace, tabulated once
\* (the merge with the empty function makes the table explicit).
shownDims == [p \in ParamSpace |-> outerDims(p)] @@ <<>>

\* lidDims of the App for the lengths p: null without a lid.
lidDims(p) ==
  LET uniform == p.thicknessMode = "uniform"
      wall == IF uniform THEN p.thickness ELSE p.wallThickness
      top == IF uniform THEN p.thickness ELSE p.topThickness
      width == DoubleSum(DoubleSum(outerDims(p).width,
                                   Twice(Double(p.clearance))),
                         Twice(Double(wall)))
      depth == DoubleSum(DoubleSum(outerDims(p).depth,
                                   Twice(Double(p.clearance))),
                         Twice(Double(wall)))
      height == outerDims(p).height
  IN  IF ~p.includeLid THEN Null
      ELSE [width |-> roundTo(width), depth |-> roundTo(depth),
            height |-> roundTo(height), wall |-> wall, top |-> top]

(***************************************************************************)
(* Measuring a built solid.  These operators read the geometry off the     *)
(* symbolic solid; they are used by the properties only.                   *)
(***************************************************************************)
SetMin(S) == CHOOSE a \in S : \A b \in S : a <= b
SetMax(S) == CHOOSE a \in S : \A b \in S : a >= b
Abs(a) == IF a < 0 THEN -a ELSE a
Plus(u, v) == <<u[1] + v[1], u[2] + v[2], u[3] + v[3]>>
Minus(u, v) == <<u[1] - v[1], u[2] - v[2], u[3] - v[3]>>

WireCoords(wire, c) ==
  {wire[i].a[c] : i \in 1..Len(wire)} \cup {wire[i].b[c] : i \in 1..Len(wire)}

\* The lowest and the highest corner of a solid's bounding box.
RECURSIVE Lo(_)
Lo(s) ==
  CASE s.kind = "box" -> s.p1
    [] s.kind = "prism" ->
         <<SetMin(WireCoords(s.wire, 1)), SetMin(WireCoords(s.wire, 2)),
           SetMin(WireCoords(s.wire, 3))>>
    [] s.kind = "pipe" ->
         <<SetMin(WireCoords(s.wire, 1)), SetMin(WireCoords(s.wire, 2)),
           SetMin(WireCoords(s.spine, 3))>>
    [] s.kind = "cylinder" -> <<-s.radius, -s.radius, 0>>
    [] s.kind = "translate" -> Plus(Lo(s.shape), s.d)
    [] s.kind = "cut" -> Lo(s.arg)

RECURSIVE Hi(_)
Hi(s) ==
  CASE s.kind = "box" -> s.p2
    [] s.kind = "prism" ->
         <<SetMax(WireCoords(s.wire, 1)), SetMax(WireCoords(s.wire, 2)),
           SetMin(WireCoords(s.wire, 3)) + s.height>>
    [] s.kind = "pipe" ->
         <<SetMax(WireCoords(s.wire, 1)), SetMax(WireCoords(s.wire, 2)),
           SetMax(WireCoords(s.spine, 3))>>
    [] s.kind = "cylinder" -> <<s.radius, s.radius, s.height>>
    [] s.kind = "translate" -> Plus(Hi(s.shape), s.d)
    [] s.kind = "cut" -> Hi(s.arg)

Size(s) == Minus(Hi(s), Lo(s))

IsProfileSolid(s) == s.kind \in {"box", "prism", "pipe"}
\* The edges of a profile solid's boundary curve, and its arcs.
EdgeCount(s) == IF s.kind = "box" THEN 4 ELSE Len(s.wire)
ArcCount(s) ==
  IF s.kind = "box" THEN 0
  ELSE Cardinality({i \in 1..Len(s.wire) : s.wire[i].type = "arc"})
\* The lengths of the straight edges running along x and along y.
StraightX(s) ==
  IF s.kind = "box" THEN {Size(s)[1]}
  ELSE {Abs(s.wire[i].b[1] - s.wire[i].a[1]) :
          i \in {j \in 1..Len(s.wire) : s.wire[j].type = "line"
                                         /\ s.wire[j].a[2] = s.wire[j].b[2]}}
StraightY(s) ==
  IF s.kind = "box" THEN {Size(s)[2]}
  ELSE {Abs(s.wire[i].b[2] - s.wire[i].a[2]) :
          i \in {j \in 1..Len(s.wire) : s.wire[j].type = "line"
                                         /\ s.wire[j].a[1] = s.wire[j].b[1]}}
\* The corner radius: how far the first straight edge starts from the corner.
CornerRadius(s) ==
  IF s.kind = "box" THEN 0 ELSE s.wire[1].a[1] - Lo(s)[1]

Count(calls, name) == Cardinality({i \in 1..Len(calls) : calls[i] = name})

\* The bodies of an exported shape: the members of a compound, else itself.
Bodies(s) == IF s.kind = "compound" THEN s.members ELSE <<s>>

StepDone == out.fn = "buildStepFile" /\ out.shape # NoShape
BoxDone == StepDone /\ out.params.shape = "box"
LidDone == StepDone /\ out.params.includeLid
Base == Bodies(out.shape)[1]
LidBody == Bodies(out.shape)[2]
Wall == resolveThickness(out.params).wall
Bottom == resolveThickness(out.params).bottom
Top == resolveThickness(out.params).top

(***************************************************************************)
(* App.tsx: the component.  One handleGenerate invocation is a record of   *)
(* gen: where it is suspended (pc), the params of the render it was        *)
(* started from, and the number of the build.                              *)
(***************************************************************************)
\* The params the App can hold: parseParams always yields the box; the
\* history and the form give the defaults of params.ts (10 by 10 by 10,
\* radius 2.5, thickness 1.67, clearance 0.2) or a width of 30, either
\* thickness mode, and the two check boxes either way.
UIParamSpace ==
  [shape : {"box"}, includeLid : BOOLEAN, insideWidth : {200000, 600000},
   insideDepth : {200000}, insideHeight : {200000},
   includeInsideRadius : BOOLEAN, insideRadius : {50000},
   thicknessMode : ThicknessModes, thickness : {33400},
   wallThickness : {33400}, topThickness : {33400},
   bottomThickness : {33400}, clearance : {4000}]

UIKernelBuilds ==
  {[KernelBuild(FALSE, FALSE, TRUE, "ok") EXCEPT !.throwsError = FALSE],
   KernelBuild(TRUE, TRUE, TRUE, "ok"),
   KernelBuild(FALSE, FALSE, TRUE, "ok"),
   KernelBuild(TRUE, TRUE, TRUE, "throws")}

\* The tessellation of the exported bodies, PreviewMeshes {box, lid?}.
previewMeshes(shape) ==
  [box |-> Bodies(shape)[1],
   lid |-> IF Len(Bodies(shape)) > 1 THEN Some(Bodies(shape)[2]) ELSE Null]

\* r with the preview mesh of its shape.
withMesh(r) ==
  [fn |-> "buildStepAndPreviewMesh", params |-> r.params,
   status |-> r.status, error |-> r.error, data |-> r.data,
   shape |-> r.shape, calls |-> r.calls, files |-> r.files,
   mesh |-> IF r.status = "ok" THEN previewMeshes(r.shape) ELSE Null]

\* The labels of the debugLog calls one adapter call makes on kernel build k
\* (the first candidate of makeEdgeLine and of makeEdgeArc succeeds; a face
\* that cannot be made raises before castToFace).
DebugLabels(k, call) ==
  CASE call = "makeEdgeLine" -> <<"makeEdgeLine">>
    [] call = "makeEdgeArc" -> <<"makeEdgeArc">>
    [] call = "makeWireFromEdges" -> <<"roundedRect wire">>
    [] call = "makeFaceFromWire" ->
         IF k.faceOk
         THEN <<"makeFaceFromWire", "castToFace", "makeFaceFromWire result",
                "roundedRect face">>
         ELSE <<"makeFaceFromWire">>
    [] call = "makePrism" ->
         <<"makePrism input", "castToFace", "makePrism face">>
    [] call = "makePipeFromWire" ->
         IF k.shell = "absent" \/ firstAttempt(k.adds, 1) # 0
         THEN <<"makeEdgeLine">>
         ELSE <<"makeEdgeLine", "pipeShell add failed">>
    [] OTHER -> <<>>

RECURSIVE TraceLabels(_, _)
TraceLabels(k, calls) ==
  IF calls = <<>> THEN <<>>
  ELSE DebugLabels(k, Head(calls)) \o TraceLabels(k, Tail(calls))

\* stepShape and the labels its adapter calls log, computed once for every
\* kernel build and parameter record of the UI.
uiShapes ==
  {[kernel |-> k, params |-> p, built |-> stepShape(k, p),
    labels |-> TraceLabels(k, stepShape(k, p).calls)] :
     k \in UIKernelBuilds, p \in UIParamSpace}

uiShape(k, p) == CHOOSE b \in uiShapes : b.kernel = k /\ b.params = p

\* The part of buildStepAndPreviewMesh after the kernel promise resolved:
\* the pipeline of buildStepFile, run once, returning {mesh, step}.
buildStepAndPreviewMesh(k, p, files) ==
  CHOOSE r \in {withMesh(step) :
                  step \in {export("buildStepFile", k, p, uiShape(k, p).built,
                                    files)}} : TRUE

Undefined == [undefined |-> TRUE]

\* debugLog(label, payload): the entry pushed onto window.__cadDebug.
debugLogEntry(label, payload, time) ==
  [label |-> label, payload |-> payload, time |-> time]

\* The trace after the debugLog calls of one build.  The payload, a summary
\* of the call's operands, is identified by the build and the position of
\* the call; the time is the position of the entry in the session.
Logged(trace, labels, build) ==
  trace \o [i \in 1..Len(labels) |->
              debugLogEntry(labels[i],
                            IF labels[i] = "pipeShell add failed"
                            THEN Undefined
                            ELSE [build |-> build, call |-> i],
                            Len(trace) + i)]

TraceLimit == 40

\* slice taking the first 40 entries.
traceSlice_First(trace) ==
  IF Len(trace) <= TraceLimit THEN trace ELSE SubSeq(trace, 1, TraceLimit)

\* win.__cadDebug.slice(-40)
traceSlice(trace) ==
  IF Len(trace) <= TraceLimit THEN trace
  ELSE SubSeq(trace, Len(trace) - TraceLimit + 1, Len(trace))

\* `${entry.time} ${entry.label}${payload}`
debugLine(entry) ==
  IF entry.payload = Undefined THEN <<entry.time, entry.label>>
  ELSE <<entry.time, entry.label, entry.payload>>

mapLines(entries) == [i \in 1..Len(entries) |-> debugLine(entries[i])]

reportLines(trace) == mapLines(traceSlice(trace))

Remove(seq, i) == SubSeq(seq, 1, i - 1) \o SubSeq(seq, i + 1, Len(seq))

\* The location.search of the entries of the session history:
\* "", "?lid=0&radius=0", "?w=30".
HistoryEntries ==
  {<<>>,
   <<"?", "l", "i", "d", "=", "0", "&", "r", "a", "d", "i", "u", "s", "=",
     "0">>,
   <<"?", "w", "=", "3", "0">>}

\* parseParams(window.location.search) at each entry of the history.
HistoryParams == {Lengths(parseParams(search)) : search \in HistoryEntries}

\* useState(() => parseParams(window.location.search))
InitUI ==
  /\ params \in HistoryParams
  /\ kernel \in UIKernelBuilds
  /\ ocPromise = "null"
  /\ initCalls = 0
  /\ waiting = <<>>
  /\ out = NoResult
  /\ prev = NoResult
  /\ fs = NoFiles
  /\ AppInit
  /\ urlDebug \in BOOLEAN

\* The effects of the first render: the URL is replaced by the search string
\* of the params, which never holds "debug=1", and the artifacts are cleared.
Mount ==
  /\ ~mounted
  /\ mounted' = TRUE
  /\ urlDebug' = FALSE
  /\ previewMesh' = Null
  /\ stepData' = Null
  /\ UNCHANGED <<params, kernel, ocPromise, initCalls, waiting, out, prev, fs,
                 status, error, debugLog, gen, builds, cadDebug, downloaded>>

\* set(key, value) and the two effects on params.
set(key, value) ==
  /\ mounted
  /\ params' = [params EXCEPT ![key] = value]
  /\ urlDebug' = FALSE
  /\ previewMesh' = Null
  /\ stepData' = Null
  /\ UNCHANGED <<kernel, ocPromise, initCalls, waiting, out, prev, fs,
                 mounted, status, error, debugLog, gen, builds, cadDebug,
                 downloaded>>

\* The text typed into the number input of each length: 30 or 10 for the
\* width; for the others the text of the default, which leaves the length
\* as it is (set replaces params all the same).
NumberInputs ==
  [insideWidth |-> {<<"3", "0">>, <<"1", "0">>},
   insideDepth |-> {<<"1", "0">>},
   insideHeight |-> {<<"1", "0", ".", "0">>},
   insideRadius |-> {<<"2", ".", "5">>},
   thickness |-> {<<"1", ".", "6", "7">>},
   wallThickness |-> {<<"1", ".", "6", "7">>},
   topThickness |-> {<<"1", ".", "6", "7", "0">>},
   bottomThickness |-> {<<"1", ".", "6", "7">>},
   clearance |-> {<<".", "2">>}]

\* Number(event.target.value) for the texts typed into each input.
NumberValues ==
  [key \in DOMAIN NumberInputs |->
     {Length(Number(text)) : text \in NumberInputs[key]}]

\* Whether the number input of key is rendered and not disabled: the
\* radius with rounded corners, the uniform thickness in the uniform mode,
\* the three thicknesses in the custom mode.
inputEnabled(key) ==
  CASE key = "insideRadius" -> params.includeInsideRadius
    [] key = "thickness" -> params.thicknessMode = "uniform"
    [] key \in {"wallThickness", "topThickness", "bottomThickness"} ->
         params.thicknessMode = "custom"
    [] OTHER -> TRUE

\* onChange of a number input: set(key, Number(event.target.value))
setNumber ==
  \E key \in DOMAIN NumberInputs :
    \E value \in NumberValues[key] :
      /\ inputEnabled(key)
      /\ set(key, value)

\* A click on "Uniform" or on "Custom".
setThicknessMode == \E mode \in ThicknessModes : set("thicknessMode", mode)

\* A click on "Include lid" or "No lid", on "Rounded" or "Square".
setFlag ==
  \E key \in {"includeLid", "includeInsideRadius"} :
    \E value \in BOOLEAN : set(key, value)

\* An edit of the form.
SetParam ==
  \/ setFlag
  \/ setNumber
  \/ setThicknessMode

\* onPopState, the user having moved to another entry of the history, and
\* the two effects on params.
onPopState ==
  /\ mounted
  /\ params' \in HistoryParams
  /\ urlDebug' = FALSE
  /\ previewMesh' = Null
  /\ stepData' = Null
  /\ UNCHANGED <<kernel, ocPromise, initCalls, waiting, out, prev, fs,
                 mounted, status, error, debugLog, gen, builds, cadDebug,
                 downloaded>>

\* handleGenerate with the Preview button never disabled.
handleGenerate_AlwaysEnabled ==
  /\ mounted
  /\ builds < MaxBuilds
  /\ builds' = builds + 1
  /\ status' = "loading"
  /\ error' = Null
  /\ debugLog' = <<>>
  /\ previewMesh' = Null
  /\ stepData' = Null
  /\ gen' = Append(gen, [pc |-> "timeout", params |-> params,
                         build |-> builds + 1])
  /\ UNCHANGED <<params, kernel, ocPromise, initCalls, waiting, out, prev, fs,
                 mounted, urlDebug, cadDebug, downloaded>>

\* handleGenerate leaving previewMesh and stepData as they are.
handleGenerate_KeepsArtifacts ==
  /\ mounted
  /\ status # "loading"
  /\ builds < MaxBuilds
  /\ builds' = builds + 1
  /\ status' = "loading"
  /\ error' = Null
  /\ debugLog' = <<>>
  /\ gen' = Append(gen, [pc |-> "timeout", params |-> params,
                         build |-> builds + 1])
  /\ UNCHANGED <<params, kernel, ocPromise, initCalls, waiting, out, prev, fs,
                 mounted, urlDebug, cadDebug, downloaded, previewMesh,
                 stepData>>

\* A click on Preview, enabled unless status is "loading": handleGenerate up
\* to `await new Promise(setTimeout)`.
handleGenerate ==
  /\ mounted
  /\ status # "loading"
  /\ builds < MaxBuilds
  /\ builds' = builds + 1
  /\ status' = "loading"
  /\ error' = Null
  /\ debugLog' = <<>>
  /\ previewMesh' = Null
  /\ stepData' = Null
  /\ gen' = Append(gen, [pc |-> "timeout", params |-> params,
                         build |-> builds + 1])
  /\ UNCHANGED <<params, kernel, ocPromise, initCalls, waiting, out, prev, fs,
                 mounted, urlDebug, cadDebug, downloaded>>

\* err instanceof Error ? err.message : "Generation failed."
errorMessage(k, err) ==
  IF err \in KernelExceptions /\ ~k.throwsError THEN "Generation failed."
  ELSE err

\* The catch block leaving status as it is.
Caught_NoStatus(i, err, trace, files) ==
  /\ gen' = Remove(gen, i)
  /\ cadDebug' = trace
  /\ fs' = files
  /\ debugLog' = IF trace # <<>> THEN reportLines(trace) ELSE debugLog
  /\ status' = status
  /\ error' = Some(errorMessage(kernel, err))

\* The catch block of handleGenerate, err being what was thrown, after a
\* build that left the trace and the files given.
Caught(i, err, trace, files) ==
  /\ gen' = Remove(gen, i)
  /\ cadDebug' = trace
  /\ fs' = files
  /\ debugLog' = IF trace # <<>> THEN reportLines(trace) ELSE debugLog
  /\ status' = "error"
  /\ error' = Some(errorMessage(kernel, err))

\* setPreviewMesh, setStepData, then the end of the try block.
Finished(i, r, trace, files, saved) ==
  /\ gen' = Remove(gen, i)
  /\ cadDebug' = trace
  /\ fs' = files
  /\ previewMesh' = Some(r.mesh)
  /\ stepData' = Some(r.data)
  /\ downloaded' = saved
  /\ status' = "idle"
  /\ UNCHANGED <<error, debugLog>>

\* `if (window.location.search.includes("debug=1"))`: tool is what
\* buildDebugInnerTool returned or raised, trace the trace it left.
Debugged(i, r, tool, trace) ==
  IF tool.status = "error"
  THEN /\ Caught(i, tool.error, trace, tool.files)
       /\ previewMesh' = Some(r.mesh)
       /\ stepData' = Some(r.data)
       /\ downloaded' = downloaded
  ELSE Finished(i, r, trace, tool.files,
                IF tool.status = "null" THEN downloaded
                ELSE Some([name |-> "inner-tool.step", data |-> tool.data]))

DebugTool(i, r, tool, trace) ==
  \E labels \in {TraceLabels(kernel, tool.calls)} :
    \E after \in {Logged(trace, labels, gen[i].build)} :
      Debugged(i, r, tool, after)

\* The build returned r, leaving the trace given.
Built(i, r, trace) ==
  IF r.status # "ok"
  THEN /\ Caught(i, r.error, trace, r.files)
       /\ UNCHANGED <<previewMesh, stepData, downloaded>>
  ELSE IF urlDebug
  THEN \E tool \in {buildDebugInnerTool(kernel, gen[i].params, r.files)} :
         DebugTool(i, r, tool, trace)
  ELSE Finished(i, r, trace, r.files, downloaded)

Settled(i, r) ==
  \E labels \in {uiShape(kernel, gen[i].params).labels} :
    \E trace \in {Logged(cadDebug, labels, gen[i].build)} :
      Built(i, r, trace)

\* Invocation i of handleGenerate from `await getOc()` on, the promise of
\* getOc() having settled as given: buildStepAndPreviewMesh runs to its end
\* and handleGenerate with it, in one turn of the event loop (everything
\* after the await is synchronous or awaits the settled promise).
AfterBuild(i, promise) ==
  IF promise = "rejected"
  THEN /\ Caught(i, InitError, cadDebug, fs)
       /\ UNCHANGED <<previewMesh, stepData, downloaded>>
  ELSE \E r \in {buildStepAndPreviewMesh(kernel, gen[i].params, fs)} :
         Settled(i, r)

\* The timer fires: buildStepAndPreviewMesh(params) runs up to
\* `await getOc()`.  With the kernel promise settled by an earlier build
\* the await continues in the same turn and handleGenerate runs to its end;
\* otherwise the invocation waits for initOpenCascade.
AfterTimeout ==
  \E i \in 1..Len(gen) :
    /\ gen[i].pc = "timeout"
    /\ getOc
    /\ UNCHANGED <<params, kernel, waiting, out, prev, mounted, urlDebug,
                   builds>>
    /\ IF ocPromise \in {"resolved", "rejected"}
       THEN AfterBuild(i, ocPromise)
       ELSE /\ gen' = [gen EXCEPT ![i].pc = "build"]
            /\ UNCHANGED <<fs, status, error, debugLog, previewMesh,
                           stepData, cadDebug, downloaded>>

\* initOpenCascade's promise settles as given, and the invocation of
\* handleGenerate that awaits it (Preview is disabled while status is
\* "loading", so there is one) runs to its end in the same turn.
InitSettles(promise) ==
  /\ ocPromise = "pending"
  /\ ocPromise' = promise
  /\ UNCHANGED <<params, kernel, initCalls, waiting, out, prev, mounted,
                 urlDebug, builds>>
  /\ IF \E i \in 1..Len(gen) : gen[i].pc = "build"
     THEN \E i \in 1..Len(gen) :
            /\ gen[i].pc = "build"
            /\ AfterBuild(i, promise)
     ELSE UNCHANGED <<fs, status, error, debugLog, previewMesh, stepData,
                      gen, cadDebug, downloaded>>

\* The kernel promise resolves while the App awaits it.
InitResolvesUI == InitSettles("resolved")

\* The kernel promise rejects while the App awaits it.
InitRejectsUI == InitSettles("rejected")

\* A click on Download STEP, shown when stepData is set and enabled unless
\* status is "loading".
handleDownload ==
  /\ mounted
  /\ stepData # Null
  /\ status # "loading"
  /\ error' = Null
  /\ downloaded' = Some([name |-> "box.step", data |-> stepData.value])
  /\ UNCHANGED <<params, kernel, ocPromise, initCalls, waiting, out, prev, fs,
                 mounted, urlDebug, status, debugLog, previewMesh, stepData,
                 gen, builds, cadDebug>>

NextUI ==
  \/ Mount
  \/ SetParam
  \/ onPopState
  \/ handleGenerate
  \/ AfterTimeout
  \/ InitResolvesUI
  \/ InitRejectsUI
  \/ handleDownload

\* A timer that was set fires, and a kernel promise that is pending
\* settles.
SpecUI ==
  /\ InitUI
  /\ [][NextUI]_vars
  /\ WF_vars(AfterTimeout)
  /\ WF_vars(InitResolvesUI \/ InitRejectsUI)

(***************************************************************************)
(* cad.ts: the adapter operations called one at a time on kernel builds    *)
(* that differ in which of the probed candidates complete.                 *)
(***************************************************************************)
\* The sets of working candidates tried out of n: those from some candidate
\* on, none, and one set with a gap.
Working(n) == {i..n : i \in 1..(n + 1)} \cup {{2, n - 1}}

AdapterKernels ==
  {[KernelBuild(TRUE, TRUE, TRUE, "ok")
      EXCEPT !.prism = Accepts(PrismAttempts, w)] :
     w \in Working(PrismAttempts)}
  \cup {[KernelBuild(TRUE, w # {}, TRUE, "ok")
           EXCEPT !.adds = Accepts(AddAttempts, w), !.shell = b] :
          w \in Working(AddAttempts), b \in {"checks", "lenient"}}
  \cup {[KernelBuild(TRUE, TRUE, TRUE, "ok")
           EXCEPT !.transform = Accepts(TransformAttempts, w)] :
          w \in SUBSET (1..TransformAttempts)}
  \cup {KernelBuild(TRUE, TRUE, TRUE, m) : m \in WriteModes}

\* The operands of the calls: the heights, the rounded wire of a 10 by 10
\* profile with radius 2.5, a box and a cut.
AdapterHeights == {100000, 200000}
AdapterWire == roundedRectWire(0, 0, 0, 200000, 200000, 50000, Diag(50000))
AdapterShapes ==
  {makeBoxAt(0, 0, 0, 200000, 200000, h).shape : h \in AdapterHeights}
  \cup {cutShape(KernelBuild(TRUE, TRUE, TRUE, "ok"),
                  makeBoxAt(0, 0, 0, 200000, 200000, 200000).shape,
                  makeBoxAt(0, 0, 0, 100000, 100000, 100000).shape)}

\* The target whose file writeStep read, 0 if it raised.
writeTarget(w) ==
  IF ~w.ok THEN 0
  ELSE CHOOSE i \in 1..Len(filenames) :
         /\ w.files[filenames[i]].exists
         /\ \A j \in 1..(i - 1) : ~w.files[filenames[j]].exists

\* What one adapter call returned: the candidate that completed (0 if none
\* did), whether the call returned, and the shape or the bytes returned.
Probed(fn, operand, winner, ok, result) ==
  [fn |-> fn, operand |-> operand, winner |-> winner, ok |-> ok,
   result |-> result]

InitAdapter ==
  /\ params \in UIParamSpace
  /\ kernel \in AdapterKernels
  /\ ocPromise = "resolved"
  /\ initCalls = 1
  /\ waiting = <<>>
  /\ out = NoResult
  /\ prev = NoResult
  /\ fs = NoFiles
  /\ NoApp

AdapterReturns(r) ==
  /\ out' = r
  /\ prev' = out
  /\ UNCHANGED <<params, kernel, ocPromise, initCalls, waiting, appVars>>

CallMakePrism ==
  \E h \in AdapterHeights :
    \E r \in {makePrism(kernel, AdapterWire, h)} :
      /\ AdapterReturns(Probed("makePrism", h, firstAttempt(kernel.prism, 1),
                                r.ok, r.shape))
      /\ UNCHANGED fs

CallMakePipeFromWire ==
  \E h \in AdapterHeights :
    \E r \in {makePipeFromWire(kernel, AdapterWire, h, 0)} :
      /\ AdapterReturns(Probed("makePipeFromWire", h,
                                firstAttempt(kernel.adds, 1), r.ok, r.shape))
      /\ UNCHANGED fs

CallTranslateShape ==
  \E shape \in AdapterShapes :
    \E r \in {translateShape(kernel, shape, 4000, 4000, 0)} :
      /\ AdapterReturns(Probed("translateShape", shape,
                                firstAttempt(kernel.transform, 1), r.ok,
                                r.shape))
      /\ UNCHANGED fs

CallWriteStep ==
  \E shape \in AdapterShapes :
    \E w \in {writeStep(kernel, shape, fs)} :
      /\ AdapterReturns(Probed("writeStep", shape, writeTarget(w), w.ok,
                                IF w.ok THEN [kind |-> "bytes", data |-> w.data]
                                ELSE NoShape))
      /\ fs' = w.files

NextAdapter ==
  \/ CallMakePrism
  \/ CallMakePipeFromWire
  \/ CallTranslateShape
  \/ CallWriteStep

SpecAdapter == InitAdapter /\ [][NextAdapter]_vars

(***************************************************************************)
(* App.tsx and params.ts: the parameters and the query string.  The URL    *)
(* effect writes paramsToSearch(params) into the location after every      *)
(* render that changed params; a reload constructs the component again     *)
(* from parseParams(window.location.search).  out holds the location       *)
(* written last and the params it was written from.                        *)
(***************************************************************************)
\* 10 (the default), 12.5, 0.001, -1.5, 100.02 and 1e306
UrlWidths ==
  {Double(200000), Double(250000), Double(20), Double(-30000),
   Double(2000400), Number(<<"1", "e", "3", "0", "6">>)}
\* 2.5 (the default), 2.50005, 0
UrlRadii == {Double(50000), Double(50001), Double(0)}
\* 1.67 (the default), 1.67025 and 1.6702 (both round to the default),
\* 1.6705 (the half, rounds up to 1.671)
UrlThicknesses ==
  {Double(33400), Double(33405), Double(33404), Double(33410)}
\* 0.2 (the default), 0, -0.0005 (rounds to -0), 0.25
UrlClearances == {Double(4000), Double(0), Double(-10), Double(5000)}

UrlParamSpace ==
  [shape : {"box"}, includeLid : BOOLEAN, insideWidth : UrlWidths,
   insideDepth : {Double(200000)}, insideHeight : {Double(200000)},
   includeInsideRadius : BOOLEAN, insideRadius : UrlRadii,
   thicknessMode : {"uniform", "custom"}, thickness : UrlThicknesses,
   wallThickness : {Double(33400)}, topThickness : {Double(33400)},
   bottomThickness : {Double(33400)}, clearance : UrlClearances]

InitUrl ==
  /\ params \in UrlParamSpace
  /\ kernel \in {KernelBuild(TRUE, TRUE, TRUE, "ok")}
  /\ ocPromise = "null"
  /\ initCalls = 0
  /\ waiting = <<>>
  /\ out = NoResult
  /\ prev = NoResult
  /\ fs = NoFiles
  /\ NoApp

\* useEffect [params]: history.replaceState with the query of params.
UrlEffect ==
  /\ out.fn # "replaceState"
  /\ out' = [fn |-> "replaceState", params |-> params,
             search |-> locationSearch(paramsToSearch(params))]
  /\ UNCHANGED <<params, kernel, ocPromise, initCalls, waiting, prev, fs,
                 appVars>>

\* The page is loaded again at the location the effect wrote:
\* useState(() => parseParams(window.location.search)).
Reload ==
  /\ out.fn = "replaceState"
  /\ params' = parseParams(out.search)
  /\ out' = [fn |-> "parseParams", params |-> out.params,
             search |-> out.search]
  /\ UNCHANGED <<kernel, ocPromise, initCalls, waiting, prev, fs, appVars>>

NextUrl ==
  \/ UrlEffect
  \/ Reload

SpecUrl == InitUrl /\ [][NextUrl]_vars

(***************************************************************************)
(* Properties                                                              *)
(***************************************************************************)

\* C1: buildStepFile hands the writer exactly one body, the base shell,
\* building no lid and no compound, when includeLid is false; when
\* includeLid is true it hands it a compound whose members are the base
\* shell and then the lid, each left as its own cut solid.
C1_ExportsBaseOrCompound ==
  (out.fn = "buildStepFile" /\ out.status = "ok") =>
    /\ out.data # <<>> => out.data = <<out.shape>>
    /\ IF ~out.params.includeLid
       THEN /\ out.shape.kind = "cut"
            /\ Len(Bodies(out.shape)) = 1
            /\ Lo(out.shape)[3] = 0
            /\ Count(out.calls, "cutShape") = 1
            /\ Count(out.calls, "makeCompound") = 0
       ELSE /\ out.shape.kind = "compound"
            /\ Len(Bodies(out.shape)) = 2
            /\ Base.kind = "cut" /\ Lo(Base)[3] = 0
            /\ LidBody.kind = "translate" /\ LidBody.shape.kind = "cut"
            /\ Size(LidBody)[3] = out.params.insideHeight + Bottom + Top
            /\ Count(out.calls, "cutShape") = 2
            /\ Count(out.calls, "makeCompound") = 1

C1_Witness ==
  /\ out.fn = "buildStepFile" /\ out.status = "ok"
  /\ out.params.shape = "box" /\ out.params.includeLid
  /\ out.shape.kind = "compound"
  /\ out.data = <<out.shape>>

\* C2: a rectangular box built without a lid has an outer solid of height
\* insideHeight + bottom, whatever the thickness mode and the top thickness,
\* and the UI shows that height rounded to 3 digits.
C2_NoLidOuterHeight ==
  (BoxDone /\ ~out.params.includeLid) =>
    /\ Size(Base.arg)[3] = out.params.insideHeight + Bottom
    /\ Lo(Base.arg)[3] = 0
    /\ shownDims[out.params].height
         = roundTo(Double(out.params.insideHeight + Bottom))

C2_Witness ==
  /\ BoxDone /\ ~out.params.includeLid /\ out.status = "ok"
  /\ out.params.thicknessMode = "custom"
  /\ Top > 0
  /\ Size(Base.arg)[3] = out.params.insideHeight + Bottom

\* C3 as claimed: the box base's outer height is insideHeight + bottom + top
\* without a lid and insideHeight + bottom with one.
C3_Claimed ==
  BoxDone =>
    Size(Base.arg)[3] =
      IF out.params.includeLid THEN out.params.insideHeight + Bottom
      ELSE out.params.insideHeight + Bottom + Top

\* C3 as amended: the box base's outer height is insideHeight + bottom both
\* with and without a lid; the top thickness is never added to the base.
C3_BaseOuterHeight ==
  BoxDone =>
    /\ Size(Base.arg)[3] = out.params.insideHeight + Bottom
    /\ Hi(Base.tool)[3] = Hi(Base.arg)[3]

C3_Witness ==
  /\ BoxDone /\ out.params.includeLid /\ out.status = "ok"
  /\ Top > 0
  /\ Size(Base.arg)[3] = out.params.insideHeight + Bottom

Cavity == LidBody.shape.tool
LidOuter == LidBody.shape.arg

\* C4: in every build with a lid, for every clearance >= 0, the lid's cavity
\* footprint is the base's outer footprint plus 2*clearance along x and
\* along y, and the lid's outer footprint is its cavity footprint plus
\* 2*wall; the base's outer footprint is insideWidth + 2*wall by
\* insideDepth + 2*wall for the box (the outer diameter for a cylinder).
C4_LidFit ==
  LidDone =>
    /\ Size(Cavity)[1] = Size(Base.arg)[1] + 2 * out.params.clearance
    /\ Size(Cavity)[2] = Size(Base.arg)[2] + 2 * out.params.clearance
    /\ Size(LidOuter)[1] = Size(Cavity)[1] + 2 * Wall
    /\ Size(LidOuter)[2] = Size(Cavity)[2] + 2 * Wall
    /\ Size(Base.arg)[1] = out.params.insideWidth + 2 * Wall
    /\ Size(Base.arg)[2] =
         IF out.params.shape = "box" THEN out.params.insideDepth + 2 * Wall
         ELSE out.params.insideWidth + 2 * Wall

C4_Witness ==
  /\ LidDone /\ out.status = "ok"
  /\ out.params.clearance = 0
  /\ Size(Cavity)[1] = Size(Base.arg)[1]
  /\ Size(Cavity)[2] = Size(Base.arg)[2]

\* C5: for a box with a lid, the translated lid's cavity spans
\* [-clearance, baseOuterWidth + clearance] in x and
\* [-clearance, baseOuterDepth + clearance] in y, the base's outer solid
\* spanning [0, baseOuterWidth] by [0, baseOuterDepth]: the gap is the
\* clearance on each of the four sides.
C5_LidConcentric ==
  (BoxDone /\ LidDone) =>
    LET c == out.params.clearance
        lo == Plus(Lo(Cavity), LidBody.d)
        hi == Plus(Hi(Cavity), LidBody.d)
    IN  /\ Lo(Base.arg)[1] = 0 /\ Lo(Base.arg)[2] = 0
        /\ Hi(Base.arg)[1] = out.params.insideWidth + 2 * Wall
        /\ Hi(Base.arg)[2] = out.params.insideDepth + 2 * Wall
        /\ lo[1] = -c /\ lo[2] = -c
        /\ hi[1] = Hi(Base.arg)[1] + c /\ hi[2] = Hi(Base.arg)[2] + c
        /\ LidBody.d[3] = 0

C5_Witness ==
  /\ BoxDone /\ LidDone /\ out.status = "ok"
  /\ out.params.clearance > 0
  /\ Plus(Lo(Cavity), LidBody.d)[1] = -out.params.clearance

\* C6: the base's outer footprint minus 2*wall is the inside footprint along
\* x and along y: exactly for the solids that are built, and to within half
\* of the third decimal digit for the outer width and depth the UI shows.
C6_ShellFootprint ==
  BoxDone =>
    /\ \A shown \in {shownDims[out.params]} :
         /\ Abs(Length(shown.width) - 2 * shown.wall
                  - out.params.insideWidth) <= RoundStep \div 2
         /\ Abs(Length(shown.depth) - 2 * shown.wall
                  - out.params.insideDepth) <= RoundStep \div 2
         /\ shown.wall = Wall
    /\ Size(Base.arg)[1] - 2 * Wall = out.params.insideWidth
    /\ Size(Base.arg)[2] - 2 * Wall = out.params.insideDepth
    /\ Size(Base.tool)[1] = out.params.insideWidth
    /\ Size(Base.tool)[2] = out.params.insideDepth
    /\ Lo(Base.tool)[1] - Lo(Base.arg)[1] = Wall
    /\ Lo(Base.tool)[2] - Lo(Base.arg)[2] = Wall

C6_Witness ==
  /\ BoxDone /\ out.status = "ok"
  /\ Length(shownDims[out.params].width)
       # out.params.insideWidth + 2 * Wall
  /\ Size(Base.arg)[1] = out.params.insideWidth + 2 * Wall

\* Every profile buildRoundedRectPrism built for the last call, with the
\* nominal corner radius it was asked for.
ProfileCalls ==
  LET p == out.params
      baseOuterRadius == IF p.includeInsideRadius THEN p.insideRadius + Wall
                         ELSE 0
      base == {[solid |-> Base.tool,
                radius |-> IF p.includeInsideRadius THEN p.insideRadius
                           ELSE 0],
               [solid |-> Base.arg, radius |-> baseOuterRadius]}
      lid == {[solid |-> Cavity, radius |-> baseOuterRadius + p.clearance],
              [solid |-> LidOuter,
               radius |-> baseOuterRadius + p.clearance + Wall]}
  IN  IF BoxDone THEN (IF LidDone THEN base \cup lid ELSE base)
      ELSE IF out.fn = "buildDebugInnerTool" /\ out.shape # NoShape
      THEN {[solid |-> out.shape, radius |-> p.insideRadius]}
      ELSE {}

MinSpan(s) == Min(Size(s)[1], Size(s)[2])

\* The profile has eight edges, lines and arcs in turn, with corner radius r.
IsRounded(s, r) ==
  /\ EdgeCount(s) = 8 /\ ArcCount(s) = 4
  /\ StraightX(s) = {Size(s)[1] - 2 * r}
  /\ StraightY(s) = {Size(s)[2] - 2 * r}
  /\ CornerRadius(s) = r

\* C7 as claimed, for a positive radius: whenever radius < min(width,
\* depth)/2 the profile has 8 edges and straight edges of length
\* width - 2*radius and depth - 2*radius.  (With radius = 0 the claim fails
\* as well: the profile is the plain rectangle.)
C7_Claimed ==
  \A c \in ProfileCalls :
    (0 < c.radius /\ 2 * c.radius < MinSpan(c.solid)) =>
      /\ EdgeCount(c.solid) = 8
      /\ StraightX(c.solid) = {Size(c.solid)[1] - 2 * c.radius}
      /\ StraightY(c.solid) = {Size(c.solid)[2] - 2 * c.radius}

\* C7 as amended: whenever 0 < radius <= min(width, depth)/2 - 0.01 the
\* profile has 8 edges, 4 of them arcs, and its straight edges have lengths
\* exactly width - 2*radius and depth - 2*radius, for the requested radius.
C7_RoundedProfile ==
  \A c \in ProfileCalls :
    (0 < c.radius /\ 2 * c.radius <= MinSpan(c.solid) - 2 * RadiusEps) =>
      IsRounded(c.solid, c.radius)

C7_Witness ==
  \E c \in ProfileCalls :
    /\ 0 < c.radius /\ 2 * c.radius <= MinSpan(c.solid) - 2 * RadiusEps
    /\ EdgeCount(c.solid) = 8
    /\ StraightX(c.solid) = {Size(c.solid)[1] - 2 * c.radius}

\* C8 as claimed: whenever radius >= min(width, depth)/2 the profile is a
\* plain rectangle of 4 edges and no arc.
C8_Claimed ==
  \A c \in ProfileCalls :
    2 * c.radius >= MinSpan(c.solid) =>
      EdgeCount(c.solid) = 4 /\ ArcCount(c.solid) = 0

\* C8 as amended: whenever radius >= min(width, depth)/2 the radius is
\* clamped to min(width, depth)/2 - 0.01; the profile is a plain rectangle of
\* 4 edges and no arc only if that is not positive (min(width, depth) <=
\* 0.02), and otherwise has 8 edges, 4 of them arcs of the clamped radius.
C8_OversizedProfile ==
  \A c \in ProfileCalls :
    2 * c.radius >= MinSpan(c.solid) =>
      IF MinSpan(c.solid) <= 2 * RadiusEps
      THEN EdgeCount(c.solid) = 4 /\ ArcCount(c.solid) = 0
      ELSE IsRounded(c.solid, MinSpan(c.solid) \div 2 - RadiusEps)

C8_Witness ==
  \E c \in ProfileCalls :
    /\ c.radius > 0 /\ 2 * c.radius >= MinSpan(c.solid)
    /\ MinSpan(c.solid) <= 2 * RadiusEps
    /\ EdgeCount(c.solid) = 4 /\ ArcCount(c.solid) = 0

\* A completed call that built the inner cavity profile from insideRadius.
InnerDone ==
  /\ out.params.includeInsideRadius
  /\ BoxDone \/ (out.fn = "buildDebugInnerTool" /\ out.shape # NoShape)
InnerProfile == IF out.fn = "buildStepFile" THEN Base.tool ELSE out.shape
InsideMin == Min(out.params.insideWidth, out.params.insideDepth)
Oversized(p) == 2 * p.insideRadius >= Min(p.insideWidth, p.insideDepth)
\* The kernel build can make every solid, move it and write it.
KernelHealthy ==
  /\ kernel.faceOk \/ kernel.pipeOk
  /\ firstAttempt(kernel.transform, 1) # 0
  /\ kernel.write \notin {"nofile", "throws", "badstatus", "toolonly"}

\* C9 as claimed: with insideRadius >= min(width, depth)/2 the radius used
\* for the inner cavity is min(width, depth)/2 - 0.01.
C9_Claimed ==
  (InnerDone /\ Oversized(out.params)) =>
    CornerRadius(InnerProfile) = InsideMin \div 2 - RadiusEps

\* C9 as amended: with insideRadius >= min(width, depth)/2 the radius used
\* for the inner cavity is max(0, min(width, depth)/2 - 0.01), which is 4.99
\* for a 10 by 10 cavity; the request is not rejected (on a kernel that
\* initialised and can build and write, the call succeeds), and both straight
\* spans of the cavity profile are strictly positive.
C9_OversizedRadius ==
  /\ (InnerDone /\ Oversized(out.params)) =>
       /\ CornerRadius(InnerProfile) = Max(0, InsideMin \div 2 - RadiusEps)
       /\ InsideMin = 200000 => CornerRadius(InnerProfile) = 99800
       /\ \A l \in StraightX(InnerProfile) \cup StraightY(InnerProfile) :
            l > 0
  /\ (out.fn \in {"buildStepFile", "buildDebugInnerTool"}
      /\ out.params.shape = "box" /\ out.params.includeInsideRadius
      /\ Oversized(out.params) /\ KernelHealthy /\ out.error # InitError) =>
       out.status = "ok"

C9_Witness ==
  /\ InnerDone /\ out.status = "ok"
  /\ out.params.insideRadius = 400000
  /\ InsideMin = 200000
  /\ CornerRadius(InnerProfile) = 99800

Ineligible(p) == p.shape # "box" \/ ~p.includeInsideRadius

\* What buildDebugInnerTool returned: null exactly for ineligible
\* parameters, else the inner cavity tool alone.
C10_Returned ==
  out.fn = "buildDebugInnerTool" =>
    /\ Ineligible(out.params) =>
         out.status = "null" /\ out.calls = <<>> /\ out.data = <<>>
    /\ out.status = "null" => Ineligible(out.params)
    /\ out.shape # NoShape =>
         /\ IsProfileSolid(out.shape)
         /\ Lo(out.shape) = <<Wall, Wall, Bottom>>
         /\ Size(out.shape) = <<out.params.insideWidth,
                                out.params.insideDepth,
                                out.params.insideHeight>>
         /\ (0 < out.params.insideRadius
             /\ 2 * out.params.insideRadius <= InsideMin - 2 * RadiusEps) =>
              CornerRadius(out.shape) = out.params.insideRadius
         /\ Count(out.calls, "cutShape") = 0
         /\ Count(out.calls, "translateShape") = 0
         /\ Count(out.calls, "makeCompound") = 0
         /\ Count(out.calls, "writeStep") = 1
         /\ out.data # <<>> => out.data = <<out.shape>>

\* A null return for ineligible parameters leaves the kernel promise, the
\* waiting calls and the file system as they were.
C10_NullStep ==
  (out' # out /\ out'.fn = "buildDebugInnerTool" /\ Ineligible(out'.params)) =>
    UNCHANGED <<ocPromise, initCalls, waiting, fs>>

\* C10: buildDebugInnerTool returns null, without initialising or calling
\* the kernel, unless the shape is the box and includeInsideRadius is true;
\* then it exports only the inner cavity tool, the profile solid at
\* (wall, wall, bottom) of the inside width, depth and height with corner
\* radius insideRadius, and builds no cut, no lid and no compound.
C10_DebugInnerTool == [](C10_Returned) /\ [][C10_NullStep]_vars

C10_Witness ==
  /\ out.fn = "buildDebugInnerTool" /\ out.status = "ok"
  /\ out.shape.kind = "prism"
  /\ CornerRadius(out.shape) = out.params.insideRadius
  /\ out.data = <<out.shape>>

Calls == {"buildStepFile", "buildDebugInnerTool"}

\* C11: whenever writeStep returns normally, so that the call exporting the
\* shape succeeds, the bytes it returns are not empty: a write that leaves an
\* empty file, or reports done and leaves no file, is not a success.
C11_NonEmptyExport ==
  (out.fn \in Calls /\ out.status = "ok") => out.data # <<>>

\* Two buildStepFile calls that ended one after the other on the resolved
\* kernel, with the same parameters, returned the same status, error and
\* bytes.
C12_SameAsBefore ==
  (/\ out.fn = "buildStepFile" /\ prev.fn = "buildStepFile"
   /\ out.error # InitError /\ prev.error # InitError
   /\ out.params = prev.params) =>
    /\ out.status = prev.status
    /\ out.error = prev.error
    /\ out.data = prev.data

\* The call that just ended returned the status and the bytes of r.
ReturnedAsOn(r) == out'.status = r.status /\ out'.data = r.data

\* A buildStepFile call ending on the resolved kernel returns what it
\* returns on a file system nothing was written to yet.
C12_FreshStep ==
  (/\ waiting # <<>> /\ waiting' = Tail(waiting)
   /\ Head(waiting).fn = "buildStepFile" /\ ocPromise = "resolved") =>
    ReturnedAsOn(buildStepFile(kernel, out'.params, NoFiles))

\* C12: buildStepFile called twice in sequence with the same parameters on
\* the memoized kernel returns the same bytes both times, and what a call
\* returns does not depend on the files earlier calls left behind.
C12_Idempotent == [](C12_SameAsBefore) /\ [][C12_FreshStep]_vars

C12_Witness ==
  /\ out.fn = "buildStepFile" /\ prev.fn = "buildStepFile"
  /\ prev.status = "ok" /\ out.status = "ok"
  /\ out.data = <<out.shape>> /\ prev.data = out.data
  /\ fs["/tmp/model.step"].data = out.data

\* initOpenCascade was called at most once, exactly when a promise is
\* memoized, and every suspended call awaits the promise of that one call.
C13_Memoized ==
  /\ initCalls <= 1
  /\ (initCalls = 0) = (ocPromise = "null")
  /\ \A i \in 1..Len(waiting) : waiting[i].oc = 1

\* initOpenCascade is called only by a call that goes on to await the
\* kernel, and only when it was not called before.
C13_InitStep ==
  initCalls' # initCalls =>
    /\ initCalls = 0 /\ initCalls' = 1
    /\ waiting = <<>> /\ Len(waiting') = 1
    /\ waiting'[1].oc = 1
    /\ out.status \in {"none", "null"}

\* C13: over every interleaving of buildStepFile and buildDebugInnerTool
\* calls, initOpenCascade is called at most once, not before the first call
\* that needs the kernel, and every call that uses the kernel gets the
\* instance of that one call.
C13_KernelOnce == [](C13_Memoized) /\ [][C13_InitStep]_vars

C13_Witness ==
  /\ initCalls = 1 /\ ocPromise = "resolved"
  /\ out.status = "ok" /\ prev.status = "ok" /\ out.fn # prev.fn
  /\ waiting # <<>> /\ waiting[1].oc = 1

RECURSIVE Cuts(_)
\* The boolean subtractions a shape is made of.
Cuts(s) ==
  CASE s.kind = "compound" -> UNION {Cuts(s.members[i]) :
                                       i \in 1..Len(s.members)}
    [] s.kind = "translate" -> Cuts(s.shape)
    [] s.kind = "cut" -> {s} \cup Cuts(s.arg) \cup Cuts(s.tool)
    [] OTHER -> {}

\* The minuend is the outer solid: it contains the subtrahend in x and y and
\* is wider than it by the wall on both sides.
OuterMinusInner(c) ==
  /\ Size(c.arg)[1] = Size(c.tool)[1] + 2 * Wall
  /\ Size(c.arg)[2] = Size(c.tool)[2] + 2 * Wall
  /\ Lo(c.arg)[1] < Lo(c.tool)[1] /\ Hi(c.tool)[1] < Hi(c.arg)[1]
  /\ Lo(c.arg)[2] < Lo(c.tool)[2] /\ Hi(c.tool)[2] < Hi(c.arg)[2]
  /\ Lo(c.arg)[3] = 0 /\ Hi(c.tool)[3] <= Hi(c.arg)[3]

\* C18: every boolean subtraction of a build, in buildBox, buildCylinder and
\* both branches of buildLid, has the outer solid as its argument and the
\* inner cavity solid as its tool, on the two-argument constructor path and
\* on the SetArguments/SetTools path of buildBoolean alike.
C18_CutOuterInner ==
  StepDone =>
    /\ Cardinality(Cuts(out.shape)) = Count(out.calls, "cutShape")
    /\ Cardinality(Cuts(out.shape)) = IF out.params.includeLid THEN 2 ELSE 1
    /\ \A c \in Cuts(out.shape) :
         /\ OuterMinusInner(c)
         /\ c.via = IF kernel.cutCtor THEN "ctor" ELSE "builder"

C18_Witness ==
  /\ BoxDone /\ LidDone /\ out.status = "ok"
  /\ ~kernel.cutCtor
  /\ Base.via = "builder" /\ OuterMinusInner(Base)
  /\ LidBody.shape.via = "builder" /\ OuterMinusInner(LidBody.shape)

\* C19: the lid's outer solid has height insideHeight + bottom + top and its
\* cavity, starting at z = 0, has height insideHeight + bottom, which is the
\* height of the base's outer solid.
C19_LidHeight ==
  LidDone =>
    /\ Lo(LidOuter)[3] = 0
    /\ Size(LidOuter)[3] = out.params.insideHeight + Bottom + Top
    /\ Lo(Cavity)[3] = 0
    /\ Size(Cavity)[3] = out.params.insideHeight + Bottom
    /\ Size(Cavity)[3] = Size(Base.arg)[3]
    /\ LidBody.d[3] = 0

C19_Witness ==
  /\ LidDone /\ out.status = "ok"
  /\ out.params.thicknessMode = "custom" /\ Top > 0 /\ Top # Bottom
  /\ Size(LidOuter)[3] = out.params.insideHeight + Bottom + Top
  /\ Size(Cavity)[3] = Size(Base.arg)[3]

\* C20: for the cylinder with a lid, the translated lid's cavity has the
\* axis of the base's outer cylinder, the gap between them being the
\* clearance all around.
C20_CylinderLidConcentric ==
  (StepDone /\ LidDone /\ out.params.shape = "cylinder") =>
    LET lo == Plus(Lo(Cavity), LidBody.d)
        hi == Plus(Hi(Cavity), LidBody.d)
    IN  /\ lo[1] + hi[1] = Lo(Base.arg)[1] + Hi(Base.arg)[1]
        /\ lo[2] + hi[2] = Lo(Base.arg)[2] + Hi(Base.arg)[2]
        /\ lo[1] = Lo(Base.arg)[1] - out.params.clearance
        /\ hi[1] = Hi(Base.arg)[1] + out.params.clearance

\* At most one handleGenerate invocation is in flight, and one is in flight
\* exactly while status is "loading".
C14_Serialized ==
  /\ Len(gen) <= 1
  /\ (gen # <<>>) = (status = "loading")
  /\ Cardinality({i \in 1..Len(gen) : gen[i].pc = "build"}) <= 1

\* handleGenerate starts only while status is not "loading" and nothing is
\* in flight.
C14_StartStep ==
  Len(gen') > Len(gen) => (status # "loading" /\ gen = <<>>)

\* C14: the UI never has two builds in flight: handleGenerate starts only
\* while status is not "loading", status is "loading" for as long as the
\* build lasts, and at most one build uses the kernel at any time.
C14_OneBuildInFlight == [](C14_Serialized) /\ [][C14_StartStep]_vars

C14_Witness ==
  /\ builds = 2 /\ Len(gen) = 1 /\ gen[1].build = 2
  /\ gen[1].pc = "timeout"
  /\ status = "loading" /\ ocPromise = "resolved"

\* C15: whenever handleGenerate has ended with status "error", stepData and
\* previewMesh are both null, so that nothing of the failed run can be
\* previewed or downloaded.
C15_NoPartialArtifact ==
  status = "error" =>
    /\ stepData = Null
    /\ previewMesh = Null
    /\ ~ENABLED handleDownload

C15_Witness ==
  /\ status = "error" /\ gen = <<>>
  /\ ocPromise = "resolved" /\ kernel.write = "throws"
  /\ cadDebug # <<>>
  /\ stepData = Null /\ previewMesh = Null

\* A build ends in one of two ways: status "idle" with stepData set, or
\* status "error" with an error message.
C16_EndStep ==
  (status = "loading" /\ status' # "loading") =>
    \/ status' = "idle" /\ stepData' # Null /\ previewMesh' # Null
    \/ status' = "error" /\ error' # Null /\ stepData' = Null

\* C16: every build that is started ends: once status is "loading" it
\* becomes "idle", with stepData set, or "error", with an error message, as
\* soon as the kernel promise has settled; there is no third outcome.
C16_BuildEnds ==
  /\ [][C16_EndStep]_vars
  /\ (status = "loading") ~> (status # "loading")

C16_Witness ==
  /\ builds = 2 /\ gen = <<>>
  /\ status = "idle" /\ stepData # Null /\ stepData.value # <<>>

\* The report of a failed build: the last entries of the trace, at most 40,
\* in the order recorded, each as its time, its label and its payload.
C17_Report ==
  status = "error" =>
    LET n == Len(debugLog)
        m == Len(cadDebug)
    IN  /\ n = Min(m, TraceLimit)
        /\ \A i \in 1..n :
             /\ debugLog[i][1] = cadDebug[m - n + i].time
             /\ debugLog[i][2] = cadDebug[m - n + i].label
             /\ IF cadDebug[m - n + i].payload = Undefined
                THEN Len(debugLog[i]) = 2
                ELSE /\ Len(debugLog[i]) = 3
                     /\ debugLog[i][3] = cadDebug[m - n + i].payload

\* C17 as claimed: the report is as above and the trace kept in memory is a
\* rolling window of about 40 events (taken here as no more than twice 40).
C17_Claimed == C17_Report /\ Len(cadDebug) <= 2 * TraceLimit

\* The trace is only ever appended to.
C17_TraceKept ==
  /\ Len(cadDebug') >= Len(cadDebug)
  /\ SubSeq(cadDebug', 1, Len(cadDebug)) = cadDebug

\* C17 as amended: the report of a failed build is the last entries of the
\* trace, at most 40, in recording order, each with its timestamp, label and
\* payload; the trace itself is not a rolling window, it keeps every event
\* recorded since the page was loaded.
C17_FailureReport == [](C17_Report) /\ [][C17_TraceKept]_vars

C17_Witness ==
  /\ status = "error"
  /\ Len(cadDebug) > 2 * TraceLimit
  /\ Len(debugLog) = TraceLimit
  /\ debugLog[TraceLimit][1] = cadDebug[Len(cadDebug)].time
  /\ debugLog[1][1] = cadDebug[Len(cadDebug) - TraceLimit + 1].time

\* The radius a profile call uses: the requested radius, capped at
\* min(width, depth)/2 - 0.01 or at 0 if that is negative.
Clamped(c) == Min(c.radius, Max(0, MinSpan(c.solid) \div 2 - RadiusEps))

\* What makePipeFromWire raises: its own Error on a build without the pipe
\* classes, else the exception of the kernel's Build.
PipeErrors ==
  {"OpenCascade pipe extrusion is not available.", PipeShellException}

\* The condition under which the rounded profile is claimed to be emitted.
RoundedCase(c) ==
  /\ 0 < Clamped(c)
  /\ Clamped(c) <= MinSpan(c.solid) \div 2 - RadiusEps
  /\ Size(c.solid)[1] - 2 * Clamped(c) > 0
  /\ Size(c.solid)[2] - 2 * Clamped(c) > 0

\* C21: buildRoundedRectPrism emits the 8-edge rounded profile only when the
\* clamped radius r satisfies 0 < r <= min(width, depth)/2 - 0.01 and both
\* straight spans are strictly positive; in every other case it builds the
\* plain axis-aligned box, and a profile that is not rounded never makes the
\* call fail.
C21_RoundedOnlyWhen ==
  /\ \A c \in ProfileCalls :
       IF RoundedCase(c)
       THEN IsRounded(c.solid, Clamped(c))
       ELSE /\ c.solid.kind = "box"
            /\ EdgeCount(c.solid) = 4 /\ ArcCount(c.solid) = 0
            /\ Clamped(c) <= 0
  /\ (out.fn = "buildStepFile" /\ out.params.shape = "box"
      /\ Count(out.calls, "makeEdgeArc") = 0 /\ out.error # InitError) =>
       /\ Count(out.calls, "makePipeFromWire") = 0
       /\ out.error \notin PipeErrors

C21_Witness ==
  /\ \E c \in ProfileCalls :
       c.radius > 0 /\ ~RoundedCase(c) /\ c.solid.kind = "box"
  /\ \E c \in ProfileCalls :
       RoundedCase(c) /\ EdgeCount(c.solid) = 8

\* Where the last call made the adapter call named.
At(name) == {i \in 1..Len(out.calls) : out.calls[i] = name}

\* The primary path taken after the wire made by call i - 1 raised.
PrimaryRaised(i) ==
  /\ out.calls[i] = "makeFaceFromWire"
  /\ i = Len(out.calls) \/ out.calls[i + 1] # "makePrism"

\* The height and the base level each profile of the last call was asked
\* for.
ProfileHeights ==
  LET p == out.params
      base == {[solid |-> Base.tool, height |-> p.insideHeight, z |-> Bottom],
               [solid |-> Base.arg, height |-> p.insideHeight + Bottom,
                z |-> 0]}
      lid == {[solid |-> Cavity, height |-> p.insideHeight + Bottom, z |-> 0],
              [solid |-> LidOuter, height |-> p.insideHeight + Bottom + Top,
               z |-> 0]}
  IN  IF BoxDone THEN (IF LidDone THEN base \cup lid ELSE base) ELSE {}

\* C22: in buildRoundedRectPrism the pipe fallback is attempted exactly when
\* the primary path (face from wire, then prism) has raised and never when
\* it succeeded, at most once per profile and with the wire and the height
\* of the primary path; if it raises too, the error leaves buildStepFile
\* and the build has no result.
C22_PipeFallback ==
  /\ \A i \in At("makePipeFromWire") : i > 1 /\ PrimaryRaised(i - 1)
  /\ \A i \in At("makeFaceFromWire") :
       PrimaryRaised(i) =>
         /\ i < Len(out.calls) /\ out.calls[i + 1] = "makePipeFromWire"
         /\ i + 1 < Len(out.calls) => out.calls[i + 2] # "makePipeFromWire"
  /\ Count(out.calls, "makePipeFromWire")
       <= Count(out.calls, "makeWireFromEdges")
  /\ \A c \in ProfileHeights :
       c.solid.kind = "pipe" =>
         /\ EdgeCount(c.solid) = 8 /\ ArcCount(c.solid) = 4
         /\ Size(c.solid)[3] = c.height /\ Lo(c.solid)[3] = c.z
         /\ ~kernel.faceOk
  /\ (out.fn = "buildStepFile" /\ At("makePipeFromWire") # {}
      /\ ~kernel.pipeOk) =>
       /\ out.status = "error" /\ out.shape = NoShape /\ out.data = <<>>
       /\ out.error \in PipeErrors
       /\ out.calls[Len(out.calls)] = "makePipeFromWire"

C22_Witness ==
  /\ BoxDone /\ LidDone /\ out.status = "ok"
  /\ ~kernel.faceOk /\ kernel.pipeOk
  /\ Base.tool.kind = "pipe" /\ LidOuter.kind = "pipe"
  /\ Count(out.calls, "makePipeFromWire") = 4

\* The candidates of the adapter operation the last call was of, in the
\* order the code tries them, and whether each completes on this kernel
\* build; for writeStep a target completes when Write returns a status that
\* is accepted and the file exists.
Candidates ==
  CASE out.fn = "makePrism" -> kernel.prism
    [] out.fn = "makePipeFromWire" -> kernel.adds
    [] out.fn = "translateShape" -> kernel.transform
    [] out.fn = "writeStep" ->
         [i \in 1..Len(filenames) |->
            LET w == WriterWrite(kernel, out.operand, filenames[i], NoFiles)
            IN  /\ ~w.threw /\ w.status \in {0, 1}
                /\ w.files[filenames[i]].exists]

FirstCompleting(c) ==
  IF \E i \in DOMAIN c : c[i] THEN SetMin({i \in DOMAIN c : c[i]}) ELSE 0

AdapterOps ==
  {"makePrism", "makePipeFromWire", "translateShape", "writeStep"}

\* C23: every adapter operation tries its candidates in a fixed order and
\* returns the result of the first that completes, the same candidate on
\* every such call for a fixed kernel, and raises instead of returning a shape
\* when every candidate fails: makePrism, makePipeFromWire, translateShape
\* and writeStep.
C23_FirstCandidateWins ==
  out.fn \in AdapterOps =>
    /\ out.winner = FirstCompleting(Candidates)
    /\ out.winner # 0 => (out.ok /\ out.result # NoShape)
    /\ out.winner = 0 => (~out.ok /\ out.result = NoShape)
    /\ (prev.fn = out.fn /\ prev.operand = out.operand) =>
         prev.winner = out.winner

\* C24: whenever stepData or previewMesh is set, it was generated from the
\* params now shown: Download never offers a STEP file built from other
\* parameters, whatever the order of edits and build completion.
C24_ArtifactsCurrent ==
  /\ stepData # Null =>
       stepData.value = Serialize(uiShape(kernel, params).built.shape)
  /\ previewMesh # Null =>
       previewMesh.value = previewMeshes(uiShape(kernel, params).built.shape)

\* C25: the "Lid Outer Size" the UI shows for the params of a build with a
\* lid (width, depth and height of lidDims) is the outer size of the lid
\* that buildLid built, to 3 decimal digits, in every thickness mode.
C25_LidSizeShown ==
  (BoxDone /\ LidDone) =>
    /\ lidDims(out.params).width = roundTo(Double(Size(LidOuter)[1]))
    /\ lidDims(out.params).depth = roundTo(Double(Size(LidOuter)[2]))
    /\ lidDims(out.params).height = roundTo(Double(Size(LidOuter)[3]))

\* The fields of the params that hold a number.
NumberFields ==
  {"insideWidth", "insideDepth", "insideHeight", "insideRadius", "thickness",
   "wallThickness", "topThickness", "bottomThickness", "clearance"}

\* a equals b as values of the field f: === of the two.
sameValue(f, a, b) == IF f \in NumberFields THEN strictEquals(a, b) ELSE a = b

\* p with each numeric field rounded to three decimals.
Rounded(p) ==
  [f \in DOMAIN p |-> IF f \in NumberFields THEN roundTo(p[f]) ELSE p[f]]

QueryKey ==
  [shape |-> <<"s", "h", "a", "p", "e">>, includeLid |-> <<"l", "i", "d">>,
   insideWidth |-> <<"w">>, insideDepth |-> <<"d">>,
   insideHeight |-> <<"h">>,
   includeInsideRadius |-> <<"r", "a", "d", "i", "u", "s">>,
   insideRadius |-> <<"r">>, thicknessMode |-> <<"t", "m", "o", "d", "e">>,
   thickness |-> <<"t">>, wallThickness |-> <<"t", "w">>,
   topThickness |-> <<"t", "t">>, bottomThickness |-> <<"t", "b">>,
   clearance |-> <<"c">>]

\* The search has a pair whose name is key: key and "=" at the start or
\* after "?" or "&".
HasKey(search, key) ==
  \E i \in 1..(Len(search) - Len(key)) :
    /\ SubSeq(search, i, i + Len(key) - 1) = key
    /\ search[i + Len(key)] = "="
    /\ i = 1 \/ search[i - 1] \in {"?", "&"}

\* C26: parsing the query string that paramsToSearch wrote for params p
\* gives p with each numeric field rounded to three decimals; a field that
\* equals its default is not in the query string, and comes back as the
\* default.
C26_UrlRoundTrip ==
  out.fn = "parseParams" =>
    /\ \A f \in DOMAIN defaultParams :
         sameValue(f, params[f], Rounded(out.params)[f])
    /\ \A f \in DOMAIN defaultParams :
         sameValue(f, out.params[f], defaultParams[f]) =>
           /\ ~HasKey(out.search, QueryKey[f])
           /\ sameValue(f, params[f], defaultParams[f])

\* C27: in a box built with rounded corners, whatever insideRadius is, the
\* corner radius the base's outer profile is built with equals the corner
\* radius its cavity profile is built with plus the wall, and the corner
\* radius of the lid's cavity profile equals that of the base's outer
\* profile plus the clearance.
C27_UniformCorners ==
  (BoxDone /\ out.params.includeInsideRadius) =>
    /\ CornerRadius(Base.arg) = CornerRadius(Base.tool) + Wall
    /\ LidDone =>
         CornerRadius(Cavity) = CornerRadius(Base.arg) + out.params.clearance

\* A call ended in this step.
CallEnded == out' # out \/ prev' # prev

\* C28 as claimed: once the kernel initialisation failed, every call of
\* buildStepFile or buildDebugInnerTool that ends fails with the
\* initialisation error, and initOpenCascade is not called again.
C28_Claimed ==
  [][ocPromise = "rejected" =>
       /\ initCalls' = initCalls /\ ocPromise' = "rejected"
       /\ CallEnded => out' = InitFailed(out'.fn, out'.params)]_vars

\* C28 as amended: once the kernel initialisation failed, initOpenCascade
\* is not called again and the promise stays rejected; every buildStepFile
\* call, and every buildDebugInnerTool call for a box with rounded inside
\* corners, fails with the initialisation error; buildDebugInnerTool for any
\* other parameters returns null without awaiting the kernel; no call
\* succeeds.
C28_FailureMemoized ==
  [][ocPromise = "rejected" =>
       /\ initCalls' = initCalls /\ ocPromise' = "rejected"
       /\ CallEnded =>
            /\ out'.status # "ok"
            /\ IF /\ out'.fn = "buildDebugInnerTool"
                  /\ \/ out'.params.shape # "box"
                     \/ ~out'.params.includeInsideRadius
               THEN out'.status = "null" /\ waiting' = waiting
               ELSE out' = InitFailed(out'.fn, out'.params)]_vars

\* After the one initialisation failed, a buildStepFile call and a
\* buildDebugInnerTool call both ended with its error.
C28_Witness ==
  /\ ocPromise = "rejected" /\ initCalls = 1
  /\ out = InitFailed(out.fn, out.params)
  /\ prev = InitFailed(prev.fn, prev.params)
  /\ out.fn # prev.fn

\* C29: every line of the debug log shown after a failed build reports an
\* entry recorded during that build, the last one started; none reports an
\* entry of an earlier build of the session.
C29_ReportOfThisBuild ==
  status = "error" =>
    \A i \in 1..Len(debugLog) :
      Len(debugLog[i]) = 3 => debugLog[i][3].build = builds

\* C30: a box built with includeInsideRadius false has no arc edge: no arc
\* is made during the build, and the outer and cavity profiles of the base
\* and of the lid are plain rectangles, whatever the clearance.
C30_NoArcWhenSquare ==
  (BoxDone /\ ~out.params.includeInsideRadius) =>
    /\ Count(out.calls, "makeEdgeArc") = 0
    /\ \A c \in ProfileCalls :
         c.solid.kind = "box" /\ EdgeCount(c.solid) = 4
                              /\ ArcCount(c.solid) = 0

====
